---- MODULE Spec2Model ----
(***************************************************************************)
(* StackSave backend: the deposit / withdrawal / earnings / allocation     *)
(* handlers and the streak state machine, over a PostgreSQL store.         *)
(*                                                                         *)
(* Store semantics (PostgreSQL, default READ COMMITTED): a statement sees  *)
(* the committed rows plus the writes of its own transaction; an UPDATE,   *)
(* DELETE or upsert takes the row's lock and waits while another open      *)
(* transaction holds it, then works on the latest committed row; a plain   *)
(* SELECT takes no lock.  `query` runs one statement in its own            *)
(* transaction; `client.query` between BEGIN and COMMIT/ROLLBACK runs in   *)
(* the handler's transaction.                                              *)
(*                                                                         *)
(* Money is DECIMAL(18,6): amounts are integers counting 10^-6 units.      *)
(* Time is counted in ticks of half a day; the server clock is UTC, so     *)
(* toISOString().split('T')[0] and setHours(0,0,0,0) name the same day.    *)
(* A DATE of 0 stands for SQL NULL.                                        *)
(***************************************************************************)
EXTENDS Integers, Sequences, FiniteSets, TLC

\* ------------------------------------------------------------- bounds
NumProcs == 3
MaxReq == 3
MaxAmount == 2
MaxDay == 5
MaxRaceDay == 3
MaxSeqReq == 4
TargetAmount == 2
AllocationUnit == 1000
MaxClock == 4
MaxFetches == 2
MaxStatements == 2

\* ---------------------------------------------------------- constants
\* 1000 * 60 * 60 * 24 ms, in ticks of 12 hours
TicksPerDay == 2
\* amount * apy / 365 / 100
DaysPerYear == 365
PercentBase == 100
\* CACHE_DURATION = 10 * 60 * 1000 ms, in ticks of 5 minutes
CACHE_DURATION == 2
\* default: apy = 10, in tenths of a percent
DefaultAPY == 100

Procs == 1..NumProcs
Users == {"u1"}
NoUser == "u0"
UserIds == Users \cup {NoUser}
GoalIds == {"g1"}
NoGoal == "none"
MissingGoal == "g0"
Amounts == 0..MaxAmount
Statuses == {"pending", "confirmed", "failed"}
ProtocolIds == {"aave-v3-usdc"}
PoolTypes == {"lending"}
APYs == {10, 12}
UserModes == {"lite", "balanced", "pro"}
\* CHECK (pool_type IN (...)) of table pool_allocations
SchemaPoolTypes == {"stablecoin", "lending", "dex", "staking", "yield_aggregator"}
\* a protocol id getProtocolAPY has no fetcher for
UnknownProtocol == "other"
CachedIds == ProtocolIds \cup {UnknownProtocol}
\* the vaults fetchBeefyAPY asks the Beefy API about
BeefyIds == {"beefy-stable", "beefy-volatile"}
\* Object.keys(PROTOCOL_ADDRESSES)
KnownProtocolIds ==
  {"aave-v3-usdc", "compound-v3-usdc", "moonwell-usdc", "seamless-usdc",
   "beefy-stable", "beefy-volatile", "yearn-usdc", "aerodrome-usdc",
   "uniswap-v3", "moonwell-multi", "seamless-multi"}
AllProtocolIds == KnownProtocolIds \cup {UnknownProtocol}

VARIABLES
  now,      \* the server clock, in ticks
  db,       \* the committed rows of every table
  next_id,  \* uuid_generate_v4(): the next fresh row id
  pc,       \* per request handler: the statement it is about to run
  req,      \* per request handler: req.params and req.body
  loc,      \* per request handler: its local variables
  tx,       \* per request handler: the uncommitted writes of its transaction
  resp,     \* per request handler: the last response sent
  nreq,     \* requests started so far
  clock,    \* Date.now() as the APY cache reads it, in ticks of 5 minutes
  apyCache  \* const apyCache = new Map(): protocolId -> << >> or <<{apy, timestamp}>>

vars == <<now, db, next_id, pc, req, loc, tx, resp, nreq, clock, apyCache>>

\* the state of the APY service, which no store handler touches
apyService == <<clock, apyCache>>

\* ------------------------------------------------------------- dates

\* new Date().toISOString().split('T')[0]
ToISODate(t) == t \div TicksPerDay

\* new Date('YYYY-MM-DD'): midnight of that day
DateToTicks(d) == d * TicksPerDay

\* date.setHours(0, 0, 0, 0)
StartOfDay(t) == (t \div TicksPerDay) * TicksPerDay

\* Math.floor((new Date(a) - new Date(b)) / (1000 * 60 * 60 * 24))
DaysDiff(a, b) == (DateToTicks(a) - DateToTicks(b)) \div TicksPerDay

Max(a, b) == IF a >= b THEN a ELSE b

\* ------------------------------------------------------------- rows

NewUser == [total_balance |-> 0, total_earnings |-> 0, wallet_address |-> "0xaa"]

NewStreak ==
  [current_streak |-> 0, longest_streak |-> 0, last_deposit_date |-> 0,
   total_deposits |-> 0]

NewGoal(u) ==
  [user_id |-> u, title |-> "Holiday", target_amount |-> TargetAmount,
   current_amount |-> 0, is_completed |-> FALSE, is_main_goal |-> FALSE]

NewGrowth == [growth_percentage |-> 0, earnings |-> 0, has_deposit |-> FALSE]

EmptyRows == [x \in {} |-> 0]

NoTx ==
  [users |-> EmptyRows, savings_goals |-> EmptyRows, streaks |-> EmptyRows,
   daily_growth |-> EmptyRows, pool_allocations |-> EmptyRows,
   deposits |-> <<>>, transactions |-> <<>>, allocation_history |-> <<>>,
   payment_methods |-> EmptyRows]

NoReq ==
  [kind |-> "none", userId |-> NoUser, amount |-> 0, goalId |-> NoGoal,
   allocations |-> <<>>, userMode |-> "lite", id |-> 0, status |-> "pending",
   protocolId |-> "none", isMainGoal |-> FALSE, isDefault |-> FALSE,
   walletAddress |-> ""]

NoLoc ==
  [currentBalance |-> 0, streak |-> NewStreak, today |-> 0, newStreak |-> 0,
   longestStreak |-> 0, rows |-> <<>>, i |-> 0, totalNewEarnings |-> 0,
   apy |-> 0, caught |-> FALSE, results |-> EmptyRows,
   clients |-> 0, released |-> 0, begun |-> 0, ended |-> 0,
   open |-> FALSE, committed |-> FALSE]

NoBody == [kind |-> "none"]

NoResp == [status |-> 0, message |-> "", body |-> NoBody]

Response(code, text) == [status |-> code, message |-> text, body |-> NoBody]

\* ------------------------------------------------------------- store

\* another open transaction holds the lock of row k of table T
Locked(p, T, k) == \E q \in Procs \ {p} : k \in DOMAIN tx[q][T]

\* the rows of table T a statement of p's transaction sees
View(p, T) == tx[p][T] @@ db[T]

\* pool_allocations as p's transaction sees it: a written <<>> is a delete
AllocView(p) ==
  LET all == tx[p].pool_allocations @@
             [k \in DOMAIN db.pool_allocations |-> <<db.pool_allocations[k]>>]
  IN [k \in {j \in DOMAIN all : all[j] # <<>>} |-> all[k][1]]

\* client.query('COMMIT'): every write of the transaction becomes visible at once
Committed(p) ==
  LET allocs == tx[p].pool_allocations @@
                [k \in DOMAIN db.pool_allocations |-> <<db.pool_allocations[k]>>]
  IN [users |-> tx[p].users @@ db.users,
      savings_goals |-> tx[p].savings_goals @@ db.savings_goals,
      streaks |-> tx[p].streaks @@ db.streaks,
      daily_growth |-> tx[p].daily_growth @@ db.daily_growth,
      pool_allocations |->
        [k \in {j \in DOMAIN allocs : allocs[j] # <<>>} |-> allocs[k][1]],
      deposits |-> db.deposits \o tx[p].deposits,
      transactions |-> db.transactions \o tx[p].transactions,
      allocation_history |-> db.allocation_history \o tx[p].allocation_history,
      payment_methods |-> tx[p].payment_methods @@ db.payment_methods]

\* the write of row k of table T inside p's transaction
Write(p, T, k, row) == [tx EXCEPT ![p][T] = (k :> row) @@ @]

\* res.status(code).json(...); finally client.release()
FinishWith(p, r) ==
  /\ pc' = [pc EXCEPT ![p] = "idle"]
  /\ resp' = [resp EXCEPT ![p] = r]
  /\ req' = [req EXCEPT ![p] = NoReq]
  /\ loc' = [loc EXCEPT ![p] = NoLoc]

Finish(p, code, text) == FinishWith(p, Response(code, text))

\* catch (error): res.status(500).json({ error: text, message: error.message }); the
\* message names the statement that threw
Failure(p, text) ==
  FinishWith(p, [status |-> 500, message |-> text,
                 body |-> [kind |-> "error", at |-> pc[p]]])

\* an idle handler takes a request
Accept(p) ==
  /\ pc[p] = "idle"
  /\ nreq' = nreq + 1

\* the handler goes on to statement next with request r and locals l
Goto(p, next, r, l) ==
  /\ pc' = [pc EXCEPT ![p] = next]
  /\ req' = [req EXCEPT ![p] = r]
  /\ loc' = [loc EXCEPT ![p] = l]
  /\ UNCHANGED resp

\* client.query('ROLLBACK')
Rollback(p) == tx' = [tx EXCEPT ![p] = NoTx] /\ UNCHANGED db

\* client.query('COMMIT')
Commit(p) == db' = Committed(p) /\ tx' = [tx EXCEPT ![p] = NoTx]

AllIdle == \A p \in Procs : pc[p] = "idle"

\* ------------------------------------------------------------- init

\* The store after connect-wallet has created the user with its streak row and
\* POST /api/goals has created one goal.
Init ==
  /\ now = TicksPerDay
  /\ db = [users |-> [u \in Users |-> NewUser],
           savings_goals |-> [g \in GoalIds |-> NewGoal("u1")],
           streaks |-> [u \in Users |-> NewStreak],
           daily_growth |-> EmptyRows,
           pool_allocations |-> EmptyRows,
           deposits |-> <<>>,
           transactions |-> <<>>,
           allocation_history |-> <<>>,
           payment_methods |-> EmptyRows]
  /\ next_id = 1
  /\ pc = [p \in Procs |-> "idle"]
  /\ req = [p \in Procs |-> NoReq]
  /\ loc = [p \in Procs |-> NoLoc]
  /\ tx = [p \in Procs |-> NoTx]
  /\ resp = [p \in Procs |-> NoResp]
  /\ nreq = 0
  /\ clock = 0
  /\ apyCache = [id \in AllProtocolIds |-> <<>>]

\* time passes between requests, up to the end of day maxDay
Tick(maxDay) ==
  /\ AllIdle
  /\ now < (maxDay + 1) * TicksPerDay - 1
  /\ now' = now + 1
  /\ UNCHANGED <<apyService, db, next_id, pc, req, loc, tx, resp, nreq>>

\* ---------------------------------------------------- streak engine

\* streak.last_deposit_date ? new Date(streak.last_deposit_date).toISOString().split('T')[0] : null
LastDepositDate(streak) ==
  IF streak.last_deposit_date # 0
  THEN ToISODate(DateToTicks(streak.last_deposit_date))
  ELSE 0

\* a variant of the streak step that writes on every deposit, same day or not
StreakAlwaysChanges(streak, today) == TRUE

\* a variant of the consecutive-day decision that never restarts the streak
NextStreakNoRestart(streak, today) ==
  IF LastDepositDate(streak) # 0
  THEN LET daysDiff == DaysDiff(today, LastDepositDate(streak))
       IN IF daysDiff >= 1 THEN streak.current_streak + 1
          ELSE streak.current_streak
  ELSE 1

\* the streak step has something to write: !lastDepositDate || lastDepositDate !== today
StreakChanges(streak, today) ==
  LastDepositDate(streak) = 0 \/ LastDepositDate(streak) # today

\* a variant of the consecutive-day decision that keeps the count after a gap
NextStreakStaysOnGap(streak, today) ==
  IF LastDepositDate(streak) # 0
  THEN LET daysDiff == DaysDiff(today, LastDepositDate(streak))
       IN IF daysDiff = 1 THEN streak.current_streak + 1
          ELSE streak.current_streak
  ELSE 1

\* let newStreak = streak.current_streak; ... the consecutive-day decision
NextStreak(streak, today) ==
  IF LastDepositDate(streak) # 0
  THEN LET daysDiff == DaysDiff(today, LastDepositDate(streak))
       IN IF daysDiff = 1 THEN streak.current_streak + 1
          ELSE IF daysDiff > 1 THEN 1
          ELSE streak.current_streak
  ELSE 1

\* a variant of the longest streak that is never raised
LongestStreakKept(streak, newStreak) == streak.longest_streak

\* Math.max(newStreak, streak.longest_streak)
LongestStreak(streak, newStreak) == Max(newStreak, streak.longest_streak)

\* UPDATE streaks SET current_streak = $1, longest_streak = $2,
\*   last_deposit_date = $3, total_deposits = total_deposits + 1
StreakRowUpdate(row, newStreak, longestStreak, today) ==
  [current_streak |-> newStreak, longest_streak |-> longestStreak,
   last_deposit_date |-> today, total_deposits |-> row.total_deposits + 1]

\* ------------------------------------------- POST /api/deposits/:userId

DepositRow(u, g, a, t) ==
  [user_id |-> u, goal_id |-> g, amount |-> a, status |-> "confirmed",
   deposit_date |-> t]

\* `Deposit${goalId ? ' to ' + title : ''}`
DepositDescription(p, g) ==
  IF g # NoGoal THEN <<"Deposit to", View(p, "savings_goals")[g].title>>
  ELSE <<"Deposit">>

\* a variant of the ledger row that is written as pending
TransactionRowPending(u, type, a, description) ==
  [user_id |-> u, type |-> type, amount |-> a, description |-> description,
   status |-> "pending"]

TransactionRow(u, type, a, description) ==
  [user_id |-> u, type |-> type, amount |-> a, description |-> description,
   status |-> "confirmed"]

\* validation, BEGIN and the INSERT INTO deposits
DepositStart(p, u, g, a) ==
  /\ Accept(p)
  /\ UNCHANGED <<apyService, now, db, next_id>>
  /\ IF a <= 0
     THEN /\ Finish(p, 400, "Invalid deposit amount")
          /\ UNCHANGED tx
     ELSE IF u \notin DOMAIN db.users
             \/ (g # NoGoal /\ g \notin DOMAIN db.savings_goals)
     THEN \* foreign key violation: catch, ROLLBACK
          /\ Failure(p, "Failed to create deposit")
          /\ UNCHANGED tx
     ELSE /\ tx' = [tx EXCEPT ![p].deposits = Append(@, DepositRow(u, g, a, now))]
          /\ Goto(p, IF g # NoGoal THEN "d_goal" ELSE "d_balance",
                  [NoReq EXCEPT !.kind = "deposit", !.userId = u, !.goalId = g,
                                !.amount = a],
                  NoLoc)

\* a variant of the goal step that never marks the goal completed
DepositGoalNoCompletion(p) ==
  LET g == req[p].goalId
      row == View(p, "savings_goals")[g]
  IN /\ pc[p] = "d_goal"
     /\ ~Locked(p, "savings_goals", g)
     /\ tx' = Write(p, "savings_goals", g,
                    [row EXCEPT !.current_amount = @ + req[p].amount])
     /\ pc' = [pc EXCEPT ![p] = "d_balance"]
     /\ UNCHANGED <<apyService, now, db, next_id, req, loc, resp, nreq>>

\* a variant of the goal step that does not wait for the row lock and writes the
\* amount it computed from the committed row
DepositGoalUnlocked(p) ==
  LET g == req[p].goalId
      row == View(p, "savings_goals")[g]
      added == [row EXCEPT !.current_amount = @ + req[p].amount]
      checked == IF added.current_amount >= added.target_amount
                 THEN [added EXCEPT !.is_completed = TRUE]
                 ELSE added
  IN /\ pc[p] = "d_goal"
     /\ tx' = Write(p, "savings_goals", g, checked)
     /\ pc' = [pc EXCEPT ![p] = "d_balance"]
     /\ UNCHANGED <<apyService, now, db, next_id, req, loc, resp, nreq>>

\* UPDATE savings_goals SET current_amount = current_amount + $1; the completion check
DepositGoal(p) ==
  LET g == req[p].goalId
      row == View(p, "savings_goals")[g]
      added == [row EXCEPT !.current_amount = @ + req[p].amount]
      checked == IF added.current_amount >= added.target_amount
                 THEN [added EXCEPT !.is_completed = TRUE]
                 ELSE added
  IN /\ pc[p] = "d_goal"
     /\ ~Locked(p, "savings_goals", g)
     /\ tx' = Write(p, "savings_goals", g, checked)
     /\ pc' = [pc EXCEPT ![p] = "d_balance"]
     /\ UNCHANGED <<apyService, now, db, next_id, req, loc, resp, nreq>>

\* UPDATE users SET total_balance = total_balance + $1
DepositBalance(p) ==
  LET u == req[p].userId
      row == View(p, "users")[u]
  IN /\ pc[p] = "d_balance"
     /\ ~Locked(p, "users", u)
     /\ tx' = Write(p, "users", u,
                    [row EXCEPT !.total_balance = @ + req[p].amount])
     /\ pc' = [pc EXCEPT ![p] = "d_streak"]
     /\ UNCHANGED <<apyService, now, db, next_id, req, loc, resp, nreq>>

\* a variant of the streak step that a deposit without a goal skips
DepositStreakSkippedWithoutGoal(p) ==
  LET u == req[p].userId
      today == ToISODate(now)
      streak == View(p, "streaks")[u]
      newStreak == NextStreak(streak, today)
  IN /\ pc[p] = "d_streak"
     /\ IF /\ req[p].goalId # NoGoal
           /\ u \in DOMAIN View(p, "streaks") /\ StreakChanges(streak, today)
        THEN /\ loc' = [loc EXCEPT ![p].today = today, ![p].streak = streak,
                                   ![p].newStreak = newStreak,
                                   ![p].longestStreak = LongestStreak(streak, newStreak)]
             /\ pc' = [pc EXCEPT ![p] = "d_streak_update"]
        ELSE /\ loc' = [loc EXCEPT ![p].today = today]
             /\ pc' = [pc EXCEPT ![p] = "d_growth"]
     /\ UNCHANGED <<apyService, now, db, next_id, req, tx, resp, nreq>>

\* SELECT * FROM streaks WHERE user_id = $1, and the decision on the row read
DepositStreakSelect(p) ==
  LET u == req[p].userId
      today == ToISODate(now)
      streak == View(p, "streaks")[u]
      newStreak == NextStreak(streak, today)
  IN /\ pc[p] = "d_streak"
     /\ IF u \in DOMAIN View(p, "streaks") /\ StreakChanges(streak, today)
        THEN /\ loc' = [loc EXCEPT ![p].today = today, ![p].streak = streak,
                                   ![p].newStreak = newStreak,
                                   ![p].longestStreak = LongestStreak(streak, newStreak)]
             /\ pc' = [pc EXCEPT ![p] = "d_streak_update"]
        ELSE /\ loc' = [loc EXCEPT ![p].today = today]
             /\ pc' = [pc EXCEPT ![p] = "d_growth"]
     /\ UNCHANGED <<apyService, now, db, next_id, req, tx, resp, nreq>>

\* UPDATE streaks SET ... WHERE user_id = $4
DepositStreakUpdate(p) ==
  LET u == req[p].userId
      row == View(p, "streaks")[u]
  IN /\ pc[p] = "d_streak_update"
     /\ ~Locked(p, "streaks", u)
     /\ tx' = Write(p, "streaks", u,
                    StreakRowUpdate(row, loc[p].newStreak, loc[p].longestStreak,
                                    loc[p].today))
     /\ pc' = [pc EXCEPT ![p] = "d_growth"]
     /\ UNCHANGED <<apyService, now, db, next_id, req, loc, resp, nreq>>

\* a variant of the growth upsert that replaces the day's row by a fresh one
DepositGrowthOverwrite(p) ==
  LET k == <<req[p].userId, loc[p].today>>
  IN /\ pc[p] = "d_growth"
     /\ ~Locked(p, "daily_growth", k)
     /\ tx' = Write(p, "daily_growth", k, [NewGrowth EXCEPT !.has_deposit = TRUE])
     /\ pc' = [pc EXCEPT ![p] = "d_transaction"]
     /\ UNCHANGED <<apyService, now, db, next_id, req, loc, resp, nreq>>

\* INSERT INTO daily_growth ... ON CONFLICT (user_id, date) DO UPDATE SET has_deposit = true
DepositGrowth(p) ==
  LET k == <<req[p].userId, loc[p].today>>
      rows == View(p, "daily_growth")
      row == IF k \in DOMAIN rows THEN rows[k] ELSE NewGrowth
  IN /\ pc[p] = "d_growth"
     /\ ~Locked(p, "daily_growth", k)
     /\ tx' = Write(p, "daily_growth", k, [row EXCEPT !.has_deposit = TRUE])
     /\ pc' = [pc EXCEPT ![p] = "d_transaction"]
     /\ UNCHANGED <<apyService, now, db, next_id, req, loc, resp, nreq>>

\* INSERT INTO transactions ... 'deposit' ... 'confirmed'
DepositTransaction(p) ==
  /\ pc[p] = "d_transaction"
  /\ tx' = [tx EXCEPT ![p].transactions =
              Append(@, TransactionRow(req[p].userId, "deposit", req[p].amount,
                                       DepositDescription(p, req[p].goalId)))]
  /\ pc' = [pc EXCEPT ![p] = "d_commit"]
  /\ UNCHANGED <<apyService, now, db, next_id, req, loc, resp, nreq>>

\* COMMIT; res.status(201)
DepositCommit(p) ==
  /\ pc[p] = "d_commit"
  /\ Commit(p)
  /\ Finish(p, 201, "Deposit successful")
  /\ UNCHANGED <<apyService, now, next_id, nreq>>

DepositPcs ==
  {"d_goal", "d_balance", "d_streak", "d_streak_update", "d_growth",
   "d_transaction", "d_commit"}

\* a catch block that answers 500 without the ROLLBACK: the client goes back to the
\* pool with its transaction open, and the next COMMIT on it keeps the writes
DepositCatchNoRollback(p) ==
  /\ pc[p] \in DepositPcs
  /\ Commit(p)
  /\ Failure(p, "Failed to create deposit")
  /\ UNCHANGED <<apyService, now, next_id, nreq>>

\* a statement throws: catch, ROLLBACK, res.status(500)
DepositCatch(p) ==
  /\ pc[p] \in DepositPcs
  /\ Rollback(p)
  /\ Failure(p, "Failed to create deposit")
  /\ UNCHANGED <<apyService, now, next_id, nreq>>

Deposit(p) ==
  \/ DepositGoal(p) \/ DepositBalance(p) \/ DepositStreakSelect(p)
  \/ DepositStreakUpdate(p) \/ DepositGrowth(p) \/ DepositTransaction(p)
  \/ DepositCommit(p) \/ DepositCatch(p)

\* --------------------------------- POST /api/transactions/:userId/withdrawal

\* validation and BEGIN
WithdrawalStart(p, u, a) ==
  /\ Accept(p)
  /\ UNCHANGED <<apyService, now, db, next_id, tx>>
  /\ IF a <= 0
     THEN Finish(p, 400, "Invalid withdrawal amount")
     ELSE Goto(p, "w_select",
               [NoReq EXCEPT !.kind = "withdrawal", !.userId = u, !.amount = a],
               NoLoc)

\* a variant of the balance check that also refuses to withdraw the whole balance
WithdrawalSelectStrict(p) ==
  LET u == req[p].userId
      rows == View(p, "users")
  IN /\ pc[p] = "w_select"
     /\ UNCHANGED <<apyService, now, next_id, nreq>>
     /\ IF u \notin DOMAIN rows
        THEN Rollback(p) /\ Finish(p, 404, "User not found")
        ELSE IF rows[u].total_balance <= req[p].amount
        THEN Rollback(p) /\ Finish(p, 400, "Insufficient balance")
        ELSE /\ pc' = [pc EXCEPT ![p] = "w_write"]
             /\ loc' = [loc EXCEPT ![p].currentBalance = rows[u].total_balance]
             /\ UNCHANGED <<db, tx, req, resp>>

\* SELECT total_balance FROM users WHERE id = $1, and the balance check
WithdrawalSelect(p) ==
  LET u == req[p].userId
      rows == View(p, "users")
  IN /\ pc[p] = "w_select"
     /\ UNCHANGED <<apyService, now, next_id, nreq>>
     /\ IF u \notin DOMAIN rows
        THEN Rollback(p) /\ Finish(p, 404, "User not found")
        ELSE IF rows[u].total_balance < req[p].amount
        THEN Rollback(p) /\ Finish(p, 400, "Insufficient balance")
        ELSE /\ pc' = [pc EXCEPT ![p] = "w_write"]
             /\ loc' = [loc EXCEPT ![p].currentBalance = rows[u].total_balance]
             /\ UNCHANGED <<db, tx, req, resp>>

\* INSERT INTO transactions ... 'withdrawal'; UPDATE users SET total_balance = total_balance - $1
WithdrawalWrite(p) ==
  LET u == req[p].userId
      row == View(p, "users")[u]
      inserted == [tx EXCEPT ![p].transactions =
                     Append(@, TransactionRow(u, "withdrawal", req[p].amount,
                                              <<"Withdrawal to", "external wallet">>))]
  IN /\ pc[p] = "w_write"
     /\ ~Locked(p, "users", u)
     /\ tx' = [inserted EXCEPT ![p].users =
                 (u :> [row EXCEPT !.total_balance = @ - req[p].amount]) @@ @]
     /\ pc' = [pc EXCEPT ![p] = "w_commit"]
     /\ UNCHANGED <<apyService, now, db, next_id, req, loc, resp, nreq>>

\* COMMIT; res.status(201)
WithdrawalCommit(p) ==
  /\ pc[p] = "w_commit"
  /\ Commit(p)
  /\ Finish(p, 201, "Withdrawal successful")
  /\ UNCHANGED <<apyService, now, next_id, nreq>>

\* a statement throws: catch, ROLLBACK, res.status(500)
WithdrawalCatch(p) ==
  /\ pc[p] \in {"w_select", "w_write", "w_commit"}
  /\ Rollback(p)
  /\ Failure(p, "Failed to create withdrawal")
  /\ UNCHANGED <<apyService, now, next_id, nreq>>

Withdrawal(p) ==
  \/ WithdrawalSelect(p) \/ WithdrawalWrite(p) \/ WithdrawalCommit(p)
  \/ WithdrawalCatch(p)

\* ----------------------------------- POST /api/transactions/:userId/earnings

\* (amount / 1000) * 100, stored in a DECIMAL(10,6) column
GrowthPercentage(a) == (2 * a * 100 + 1000) \div (2 * 1000)

\* validation, BEGIN and the INSERT INTO transactions ... 'earnings'
EarningsStart(p, u, a) ==
  /\ Accept(p)
  /\ UNCHANGED <<apyService, now, db, next_id>>
  /\ IF a <= 0
     THEN /\ Finish(p, 400, "Invalid earnings amount")
          /\ UNCHANGED tx
     ELSE IF u \notin DOMAIN db.users
     THEN \* foreign key violation: catch, ROLLBACK
          /\ Failure(p, "Failed to record earnings")
          /\ UNCHANGED tx
     ELSE /\ tx' = [tx EXCEPT ![p].transactions =
                      Append(@, TransactionRow(u, "earnings", a,
                                               <<"Daily yield earnings">>))]
          /\ Goto(p, "e_update",
                  [NoReq EXCEPT !.kind = "earnings", !.userId = u, !.amount = a],
                  NoLoc)

\* UPDATE users SET total_balance = total_balance + $1, total_earnings = total_earnings + $1
EarningsUpdate(p) ==
  LET u == req[p].userId
      row == View(p, "users")[u]
  IN /\ pc[p] = "e_update"
     /\ ~Locked(p, "users", u)
     /\ tx' = Write(p, "users", u,
                    [row EXCEPT !.total_balance = @ + req[p].amount,
                                !.total_earnings = @ + req[p].amount])
     /\ pc' = [pc EXCEPT ![p] = "e_growth"]
     /\ loc' = [loc EXCEPT ![p].today = ToISODate(now)]
     /\ UNCHANGED <<apyService, now, db, next_id, req, resp, nreq>>

\* an upsert that replaces the day's earnings instead of adding to them
EarningsGrowthOverwrite(p) ==
  LET k == <<req[p].userId, loc[p].today>>
      rows == View(p, "daily_growth")
      a == req[p].amount
      row == [(IF k \in DOMAIN rows THEN rows[k] ELSE NewGrowth)
                EXCEPT !.earnings = a, !.growth_percentage = GrowthPercentage(a)]
  IN /\ pc[p] = "e_growth"
     /\ ~Locked(p, "daily_growth", k)
     /\ tx' = Write(p, "daily_growth", k, row)
     /\ pc' = [pc EXCEPT ![p] = "e_commit"]
     /\ UNCHANGED <<apyService, now, db, next_id, req, loc, resp, nreq>>

\* INSERT INTO daily_growth ... ON CONFLICT DO UPDATE SET earnings = daily_growth.earnings
\*   + EXCLUDED.earnings, growth_percentage = EXCLUDED.growth_percentage
EarningsGrowth(p) ==
  LET k == <<req[p].userId, loc[p].today>>
      rows == View(p, "daily_growth")
      a == req[p].amount
      row == IF k \in DOMAIN rows
             THEN [rows[k] EXCEPT !.earnings = @ + a,
                                  !.growth_percentage = GrowthPercentage(a)]
             ELSE [NewGrowth EXCEPT !.earnings = a,
                                    !.growth_percentage = GrowthPercentage(a)]
  IN /\ pc[p] = "e_growth"
     /\ ~Locked(p, "daily_growth", k)
     /\ tx' = Write(p, "daily_growth", k, row)
     /\ pc' = [pc EXCEPT ![p] = "e_commit"]
     /\ UNCHANGED <<apyService, now, db, next_id, req, loc, resp, nreq>>

\* COMMIT; res.status(201)
EarningsCommit(p) ==
  /\ pc[p] = "e_commit"
  /\ Commit(p)
  /\ Finish(p, 201, "Earnings recorded successfully")
  /\ UNCHANGED <<apyService, now, next_id, nreq>>

\* a statement throws: catch, ROLLBACK, res.status(500)
EarningsCatch(p) ==
  /\ pc[p] \in {"e_update", "e_growth", "e_commit"}
  /\ Rollback(p)
  /\ Failure(p, "Failed to record earnings")
  /\ UNCHANGED <<apyService, now, next_id, nreq>>

Earnings(p) ==
  \/ EarningsUpdate(p) \/ EarningsGrowth(p) \/ EarningsCommit(p)
  \/ EarningsCatch(p)

\* ---------------------------------------------------- GET /api/users/:userId

\* SELECT * FROM users WHERE id = $1; the answer carries totalBalance
GetUser(p, u) ==
  /\ Accept(p)
  /\ pc' = [pc EXCEPT ![p] = "idle"]
  /\ resp' = [resp EXCEPT ![p] =
                IF u \in DOMAIN db.users
                THEN [status |-> 200, message |-> "",
                      body |-> [kind |-> "user",
                                totalBalance |-> db.users[u].total_balance]]
                ELSE Response(404, "User not found")]
  /\ UNCHANGED <<apyService, now, db, next_id, req, loc, tx>>

\* ------------------------------------------------ /api/streaks/:userId

\* Math.floor((today.setHours(0,0,0,0) - lastDeposit.setHours(0,0,0,0)) / (1000*60*60*24))
DaysSinceLastDeposit(streak, t) ==
  (StartOfDay(t) - StartOfDay(DateToTicks(streak.last_deposit_date))) \div TicksPerDay

\* a variant of the decay test that already resets the day after the last deposit
DecaysAfterOneDay(streak, t) ==
  /\ streak.last_deposit_date # 0
  /\ DaysSinceLastDeposit(streak, t) >= 1
  /\ streak.current_streak > 0

\* the read resets the streak: more than 1 day has passed
Decays(streak, t) ==
  /\ streak.last_deposit_date # 0
  /\ DaysSinceLastDeposit(streak, t) > 1
  /\ streak.current_streak > 0

\* GET /:userId: the SELECT and the decision to reset
StreakGetStart(p, u) ==
  /\ Accept(p)
  /\ UNCHANGED <<apyService, now, db, next_id, tx>>
  /\ IF u \notin DOMAIN db.streaks
     THEN \* the INSERT of a streak row for an unknown user: foreign key violation
          Failure(p, "Failed to get streak")
     ELSE IF Decays(db.streaks[u], now)
     THEN Goto(p, "s_decay", [NoReq EXCEPT !.kind = "streak_get", !.userId = u], NoLoc)
     ELSE Finish(p, 200, "Streak")

\* UPDATE streaks SET current_streak = 0 WHERE user_id = $1
StreakGetDecay(p) ==
  LET u == req[p].userId
  IN /\ pc[p] = "s_decay"
     /\ ~Locked(p, "streaks", u)
     /\ db' = [db EXCEPT !.streaks[u].current_streak = 0]
     /\ Finish(p, 200, "Streak")
     /\ UNCHANGED <<apyService, now, next_id, tx, nreq>>

\* a variant of /check that counts on after a gap instead of starting again
StreakCheckStartNoRestart(p, u) ==
  LET today == ToISODate(now)
      streak == db.streaks[u]
      newStreak == NextStreakNoRestart(streak, today)
  IN /\ Accept(p)
     /\ UNCHANGED <<apyService, now, db, next_id, tx>>
     /\ IF u \notin DOMAIN db.streaks
        THEN Finish(p, 404, "Streak record not found")
        ELSE IF LastDepositDate(streak) = today
        THEN Finish(p, 200, "Streak already updated for today")
        ELSE Goto(p, "c_update",
                  [NoReq EXCEPT !.kind = "streak_check", !.userId = u],
                  [NoLoc EXCEPT !.today = today, !.streak = streak,
                                !.newStreak = newStreak,
                                !.longestStreak = LongestStreak(streak, newStreak)])

\* POST /:userId/check: the SELECT and the decision on the row read
StreakCheckStart(p, u) ==
  LET today == ToISODate(now)
      streak == db.streaks[u]
      newStreak == NextStreak(streak, today)
  IN /\ Accept(p)
     /\ UNCHANGED <<apyService, now, db, next_id, tx>>
     /\ IF u \notin DOMAIN db.streaks
        THEN Finish(p, 404, "Streak record not found")
        ELSE IF LastDepositDate(streak) = today
        THEN Finish(p, 200, "Streak already updated for today")
        ELSE Goto(p, "c_update",
                  [NoReq EXCEPT !.kind = "streak_check", !.userId = u],
                  [NoLoc EXCEPT !.today = today, !.streak = streak,
                                !.newStreak = newStreak,
                                !.longestStreak = LongestStreak(streak, newStreak)])

\* UPDATE streaks SET current_streak = $1, longest_streak = $2, last_deposit_date = $3,
\*   total_deposits = total_deposits + 1
StreakCheckUpdate(p) ==
  LET u == req[p].userId
  IN /\ pc[p] = "c_update"
     /\ ~Locked(p, "streaks", u)
     /\ db' = [db EXCEPT !.streaks[u] =
                 StreakRowUpdate(@, loc[p].newStreak, loc[p].longestStreak,
                                 loc[p].today)]
     /\ Finish(p, 200, "Streak updated successfully")
     /\ UNCHANGED <<apyService, now, next_id, tx, nreq>>

\* a variant of the manual reset that also forgets the longest streak
StreakResetAll(p, u) ==
  /\ Accept(p)
  /\ ~Locked(p, "streaks", u)
  /\ UNCHANGED <<apyService, now, next_id, tx>>
  /\ IF u \in DOMAIN db.streaks
     THEN /\ db' = [db EXCEPT !.streaks[u].current_streak = 0,
                              !.streaks[u].longest_streak = 0]
          /\ Finish(p, 200, "Streak reset successfully")
     ELSE /\ Finish(p, 404, "Streak record not found")
          /\ UNCHANGED db

\* POST /:userId/reset: UPDATE streaks SET current_streak = 0
StreakReset(p, u) ==
  /\ Accept(p)
  /\ ~Locked(p, "streaks", u)
  /\ UNCHANGED <<apyService, now, next_id, tx>>
  /\ IF u \in DOMAIN db.streaks
     THEN /\ db' = [db EXCEPT !.streaks[u].current_streak = 0]
          /\ Finish(p, 200, "Streak reset successfully")
     ELSE /\ Finish(p, 404, "Streak record not found")
          /\ UNCHANGED db

\* the UPDATE throws: catch, res.status(500); nothing was written
StreakCatch(p) ==
  /\ pc[p] \in {"s_decay", "c_update"}
  /\ Failure(p, IF pc[p] = "s_decay" THEN "Failed to get streak"
                ELSE "Failed to check streak")
  /\ UNCHANGED <<apyService, now, db, next_id, tx, nreq>>

Streak(p) == StreakGetDecay(p) \/ StreakCheckUpdate(p) \/ StreakCatch(p)

\* ----------------------------------- PUT /:depositId/status, /:transactionId/status

StatusInputs == Statuses \cup {"bogus"}

\* res.json({ id: result.rows[0].id, status: result.rows[0].status, message })
StatusResponse(id, status, text) ==
  [status |-> 200, message |-> text,
   body |-> [kind |-> "status", id |-> id, status |-> status]]

\* a status update that takes a failed deposit back out of the balance
UpdateDepositStatusCascading(p, id, status) ==
  /\ Accept(p)
  /\ UNCHANGED <<apyService, now, next_id, tx>>
  /\ IF status \notin Statuses
     THEN /\ Finish(p, 400, "Invalid status")
          /\ UNCHANGED db
     ELSE IF id \notin DOMAIN db.deposits
     THEN /\ Finish(p, 404, "Deposit not found")
          /\ UNCHANGED db
     ELSE /\ db' = [db EXCEPT
                      !.deposits[id].status = status,
                      !.users[db.deposits[id].user_id].total_balance =
                        IF status = "failed" /\ db.deposits[id].status # "failed"
                        THEN @ - db.deposits[id].amount ELSE @]
          /\ FinishWith(p, StatusResponse(id, status, "Deposit status updated"))

\* UPDATE deposits SET status = $1 WHERE id = $2
UpdateDepositStatus(p, id, status) ==
  /\ Accept(p)
  /\ UNCHANGED <<apyService, now, next_id, tx>>
  /\ IF status \notin Statuses
     THEN /\ Finish(p, 400, "Invalid status")
          /\ UNCHANGED db
     ELSE IF id \notin DOMAIN db.deposits
     THEN /\ Finish(p, 404, "Deposit not found")
          /\ UNCHANGED db
     ELSE /\ db' = [db EXCEPT !.deposits[id].status = status]
          /\ FinishWith(p, StatusResponse(id, status, "Deposit status updated"))

\* UPDATE transactions SET status = $1 WHERE id = $2
UpdateTransactionStatus(p, id, status) ==
  /\ Accept(p)
  /\ UNCHANGED <<apyService, now, next_id, tx>>
  /\ IF status \notin Statuses
     THEN /\ Finish(p, 400, "Invalid status")
          /\ UNCHANGED db
     ELSE IF id \notin DOMAIN db.transactions
     THEN /\ Finish(p, 404, "Transaction not found")
          /\ UNCHANGED db
     ELSE /\ db' = [db EXCEPT !.transactions[id].status = status]
          /\ FinishWith(p, StatusResponse(id, status, "Transaction status updated"))

\* ------------------------------------------------ /api/portfolio/:userId

\* x / 365 / 100 stored in a DECIMAL(18,6) column: rounded to the nearest 10^-6
PerDay(x) == (2 * x + DaysPerYear * PercentBase) \div (2 * DaysPerYear * PercentBase)

\* a variant of the daily earnings that drops the fraction instead of rounding
DailyEarningsTruncated(amount, apy) == (amount * apy) \div (DaysPerYear * PercentBase)

\* amount * apy / 365 / 100
DailyEarnings(amount, apy) == PerDay(amount * apy)

AllocationKey(u, alloc) == <<u, alloc.protocolId, alloc.poolType>>

\* the rows in the order the SELECT returns them
RECURSIVE RowSeq(_)
RowSeq(rows) ==
  IF rows = {} THEN <<>>
  ELSE LET r == CHOOSE x \in rows : \A y \in rows : x.id <= y.id
       IN <<r>> \o RowSeq(rows \ {r})

\* POST /:userId/allocate: validation and BEGIN
AllocateStart(p, u, allocs, mode) ==
  /\ Accept(p)
  /\ UNCHANGED <<apyService, now, db, next_id, tx>>
  /\ IF Len(allocs) = 0
     THEN Finish(p, 400, "Allocations array is required")
     ELSE IF mode \notin UserModes
     THEN Finish(p, 400, "Valid user mode is required")
     ELSE Goto(p, "a_upsert",
               [NoReq EXCEPT !.kind = "allocate", !.userId = u,
                             !.allocations = allocs, !.userMode = mode],
               NoLoc)

\* INSERT INTO pool_allocations ... ON CONFLICT (user_id, protocol_id, pool_type) DO UPDATE
AllocateUpsert(p) ==
  LET u == req[p].userId
      i == loc[p].i + 1
      alloc == req[p].allocations[i]
      k == AllocationKey(u, alloc)
      rows == AllocView(p)
      row == IF k \in DOMAIN rows
             THEN [rows[k] EXCEPT
                     !.amount_allocated = @ + alloc.amount,
                     !.current_apy = alloc.apy,
                     !.daily_earnings =
                       DailyEarnings(rows[k].amount_allocated + alloc.amount, alloc.apy)]
             ELSE [id |-> next_id, user_id |-> u, pool_type |-> alloc.poolType,
                   protocol_id |-> alloc.protocolId,
                   amount_allocated |-> alloc.amount, current_apy |-> alloc.apy,
                   total_earnings |-> 0,
                   daily_earnings |-> DailyEarnings(alloc.amount, alloc.apy)]
  IN /\ pc[p] = "a_upsert"
     /\ UNCHANGED <<apyService, now, nreq>>
     /\ IF u \notin DOMAIN db.users \/ alloc.poolType \notin SchemaPoolTypes
        THEN \* foreign key or CHECK violation: catch, ROLLBACK
             /\ Rollback(p)
             /\ Failure(p, "Failed to allocate deposit")
             /\ UNCHANGED next_id
        ELSE /\ ~Locked(p, "pool_allocations", k)
             /\ tx' = Write(p, "pool_allocations", k, <<row>>)
             /\ next_id' = IF k \in DOMAIN rows THEN next_id ELSE next_id + 1
             /\ loc' = [loc EXCEPT ![p].i = i]
             /\ pc' = [pc EXCEPT ![p] =
                         IF i = Len(req[p].allocations) THEN "a_history" ELSE "a_upsert"]
             /\ UNCHANGED <<db, req, resp>>

\* INSERT INTO allocation_history
AllocateHistory(p) ==
  /\ pc[p] = "a_history"
  /\ tx' = [tx EXCEPT ![p].allocation_history =
              Append(@, [user_id |-> req[p].userId, deposit_id |-> 0,
                         deposit_amount |-> req[p].amount,
                         allocations |-> req[p].allocations,
                         user_mode |-> req[p].userMode])]
  /\ pc' = [pc EXCEPT ![p] = "a_commit"]
  /\ UNCHANGED <<apyService, now, db, next_id, req, loc, resp, nreq>>

\* COMMIT; res.status(201)
AllocateCommit(p) ==
  /\ pc[p] = "a_commit"
  /\ Commit(p)
  /\ Finish(p, 201, "Deposit allocated successfully")
  /\ UNCHANGED <<apyService, now, next_id, nreq>>

\* a variant of the error path that commits what was written so far
AllocateCatchNoRollback(p) ==
  /\ pc[p] \in {"a_upsert", "a_history", "a_commit"}
  /\ Commit(p)
  /\ Failure(p, "Failed to allocate deposit")
  /\ UNCHANGED <<apyService, now, next_id, nreq>>

\* a statement throws: catch, ROLLBACK, res.status(500)
AllocateCatch(p) ==
  /\ pc[p] \in {"a_upsert", "a_history", "a_commit"}
  /\ Rollback(p)
  /\ Failure(p, "Failed to allocate deposit")
  /\ UNCHANGED <<apyService, now, next_id, nreq>>

Allocate(p) ==
  \/ AllocateUpsert(p) \/ AllocateHistory(p) \/ AllocateCommit(p)
  \/ AllocateCatch(p)

\* the keys of the committed pool_allocations rows with this id
KeysOfId(id) == {k \in DOMAIN db.pool_allocations : db.pool_allocations[k].id = id}

\* DELETE /:userId/allocation/:allocationId: BEGIN and
\* SELECT * FROM pool_allocations WHERE id = $1 AND user_id = $2
DeallocateStart(p, u, id) ==
  LET found == {k \in KeysOfId(id) : db.pool_allocations[k].user_id = u}
  IN /\ Accept(p)
     /\ UNCHANGED <<apyService, now, db, next_id, tx>>
     /\ IF found = {}
        THEN Finish(p, 404, "Allocation not found")
        ELSE Goto(p, "x_delete",
                  [NoReq EXCEPT !.kind = "deallocate", !.userId = u, !.id = id],
                  [NoLoc EXCEPT !.rows =
                     <<db.pool_allocations[CHOOSE k \in found : TRUE]>>])

\* DELETE FROM pool_allocations WHERE id = $1
DeallocateDelete(p) ==
  LET ks == KeysOfId(req[p].id)
  IN /\ pc[p] = "x_delete"
     /\ \A k \in ks : ~Locked(p, "pool_allocations", k)
     /\ tx' = [tx EXCEPT ![p].pool_allocations = [k \in ks |-> <<>>] @@ @]
     /\ pc' = [pc EXCEPT ![p] = "x_credit"]
     /\ UNCHANGED <<apyService, now, db, next_id, req, loc, resp, nreq>>

\* UPDATE users SET total_balance = total_balance + $1, with the amount the SELECT read
DeallocateCredit(p) ==
  LET u == req[p].userId
      row == View(p, "users")[u]
      amount == loc[p].rows[1].amount_allocated
  IN /\ pc[p] = "x_credit"
     /\ ~Locked(p, "users", u)
     /\ tx' = Write(p, "users", u, [row EXCEPT !.total_balance = @ + amount])
     /\ pc' = [pc EXCEPT ![p] = "x_commit"]
     /\ UNCHANGED <<apyService, now, db, next_id, req, loc, resp, nreq>>

\* COMMIT; res.json
DeallocateCommit(p) ==
  /\ pc[p] = "x_commit"
  /\ Commit(p)
  /\ Finish(p, 200, "Allocation removed successfully")
  /\ UNCHANGED <<apyService, now, next_id, nreq>>

\* a catch that commits what the transaction wrote so far
DeallocateCatchNoRollback(p) ==
  /\ pc[p] \in {"x_delete", "x_credit", "x_commit"}
  /\ Commit(p)
  /\ Failure(p, "Failed to delete allocation")
  /\ UNCHANGED <<apyService, now, next_id, nreq>>

\* a statement throws: catch, ROLLBACK, res.status(500)
DeallocateCatch(p) ==
  /\ pc[p] \in {"x_delete", "x_credit", "x_commit"}
  /\ Rollback(p)
  /\ Failure(p, "Failed to delete allocation")
  /\ UNCHANGED <<apyService, now, next_id, nreq>>

Deallocate(p) ==
  \/ DeallocateDelete(p) \/ DeallocateCredit(p) \/ DeallocateCommit(p)
  \/ DeallocateCatch(p)

\* PUT /:userId/update-earnings: BEGIN and SELECT * FROM pool_allocations WHERE user_id = $1
UpdateEarningsStart(p, u) ==
  LET mine == {db.pool_allocations[k] :
                 k \in {j \in DOMAIN db.pool_allocations :
                          db.pool_allocations[j].user_id = u}}
  IN /\ Accept(p)
     /\ Goto(p, IF mine = {} THEN "ue_user" ELSE "ue_row",
             [NoReq EXCEPT !.kind = "update_earnings", !.userId = u],
             [NoLoc EXCEPT !.rows = RowSeq(mine)])
     /\ UNCHANGED <<apyService, now, db, next_id, tx>>

\* UPDATE pool_allocations SET total_earnings = total_earnings + $1, daily_earnings = $2
\*   WHERE id = $3; totalNewEarnings is kept unrounded, in 1/36500 of 10^-6
UpdateEarningsRow(p) ==
  LET i == loc[p].i + 1
      alloc == loc[p].rows[i]
      dailyEarning == alloc.amount_allocated * alloc.current_apy
      ks == {k \in DOMAIN AllocView(p) : AllocView(p)[k].id = alloc.id}
  IN /\ pc[p] = "ue_row"
     /\ \A k \in ks : ~Locked(p, "pool_allocations", k)
     /\ tx' = [tx EXCEPT ![p].pool_allocations =
                 [k \in ks |->
                    <<[AllocView(p)[k] EXCEPT
                         !.total_earnings = @ + PerDay(dailyEarning),
                         !.daily_earnings = PerDay(dailyEarning)]>>] @@ @]
     /\ loc' = [loc EXCEPT ![p].i = i,
                           ![p].totalNewEarnings = @ + dailyEarning]
     /\ pc' = [pc EXCEPT ![p] = IF i = Len(loc[p].rows) THEN "ue_user" ELSE "ue_row"]
     /\ UNCHANGED <<apyService, now, db, next_id, req, resp, nreq>>

\* UPDATE users SET total_earnings = total_earnings + $1
UpdateEarningsUser(p) ==
  LET u == req[p].userId
      rows == View(p, "users")
  IN /\ pc[p] = "ue_user"
     /\ ~Locked(p, "users", u)
     /\ tx' = IF u \in DOMAIN rows
              THEN Write(p, "users", u,
                         [rows[u] EXCEPT !.total_earnings =
                            @ + PerDay(loc[p].totalNewEarnings)])
              ELSE tx
     /\ pc' = [pc EXCEPT ![p] = "ue_commit"]
     /\ UNCHANGED <<apyService, now, db, next_id, req, loc, resp, nreq>>

\* COMMIT; res.json
UpdateEarningsCommit(p) ==
  /\ pc[p] = "ue_commit"
  /\ Commit(p)
  /\ Finish(p, 200, "Earnings updated successfully")
  /\ UNCHANGED <<apyService, now, next_id, nreq>>

\* a statement throws: catch, ROLLBACK, res.status(500)
UpdateEarningsCatch(p) ==
  /\ pc[p] \in {"ue_row", "ue_user", "ue_commit"}
  /\ Rollback(p)
  /\ Failure(p, "Failed to update earnings")
  /\ UNCHANGED <<apyService, now, next_id, nreq>>

UpdateEarnings(p) ==
  \/ UpdateEarningsRow(p) \/ UpdateEarningsUser(p) \/ UpdateEarningsCommit(p)
  \/ UpdateEarningsCatch(p)

\* ------------------------------------------------------ specifications

GoalInputs == {NoGoal, MissingGoal} \cup GoalIds

\* the handler that serves the requests of a serial run
Serial == CHOOSE p \in Procs : TRUE

\* the handler that serves the balance reads
Observer == CHOOSE p \in Procs : p # Serial

\* two handlers that run side by side
Pair == {Serial, Observer}

\* concurrent deposits, each of which may fail at any statement
NextDeposits ==
  \/ Tick(MaxRaceDay)
  \/ \E p \in Pair : \E u \in UserIds, g \in GoalInputs, a \in {0, MaxAmount} :
       nreq < MaxReq /\ DepositStart(p, u, g, a)
  \/ \E p \in Pair : Deposit(p)

SpecDeposits == Init /\ [][NextDeposits]_vars

\* ------------------------------------------------------------- claims

U == "u1"

\* every write of RecordDeposit by handler p takes effect in this step
DepositFullyApplied(p) ==
  LET u == req[p].userId
      g == req[p].goalId
      a == req[p].amount
      k == <<u, loc[p].today>>
  IN /\ Len(db'.deposits) = Len(db.deposits) + 1
     /\ SubSeq(db'.deposits, 1, Len(db.deposits)) = db.deposits
     /\ LET d == db'.deposits[Len(db'.deposits)]
        IN d.user_id = u /\ d.goal_id = g /\ d.amount = a /\ d.status = "confirmed"
     /\ db'.users[u].total_balance = db.users[u].total_balance + a
     /\ IF g = NoGoal
        THEN db'.savings_goals = db.savings_goals
        ELSE /\ db'.savings_goals[g].current_amount =
                  db.savings_goals[g].current_amount + a
             /\ (db'.savings_goals[g].current_amount >= db'.savings_goals[g].target_amount
                   => db'.savings_goals[g].is_completed)
     /\ db'.streaks[u].last_deposit_date = loc[p].today
     /\ db'.streaks[u].current_streak >= 1
     /\ k \in DOMAIN db'.daily_growth /\ db'.daily_growth[k].has_deposit
     /\ db'.transactions =
          Append(db.transactions,
                 TransactionRow(u, "deposit", a, DepositDescription(p, g)))

\* C1: RecordDeposit is all-or-nothing. The committed rows (all that another
\* transaction can read) change in a step of a deposit only by the deposit's COMMIT,
\* which answers 201 and applies the deposit row, the goal increment and completion
\* flag, the balance increment, the streak step, the daily-growth flag and the
\* transaction row together; a deposit that ends in an error changes no committed row.
C1_DepositAllOrNothing ==
  [][ \/ db' = db
      \/ \E p \in Pair :
           /\ pc[p] = "d_commit"
           /\ resp'[p].status = 201
           /\ DepositFullyApplied(p) ]_vars

\* a deposit has failed at its COMMIT, after all six writes, next to a committed one
C1_Witness ==
  \E p \in Pair :
    /\ resp[p].status = 500
    /\ resp[p].body.kind = "error"
    /\ resp[p].body.at = "d_commit"
    /\ Len(db.deposits) = 1
    /\ Len(db.transactions) = 1
    /\ db.users[U].total_balance = db.deposits[1].amount

\* ------------------------------------------------ concurrent withdrawals

WithdrawalMessages ==
  {"Withdrawal successful", "Insufficient balance", "Failed to create withdrawal"}

\* one deposit funds the user; then every handler withdraws the whole balance once
NextWithdrawalRace ==
  \/ \E p \in {Serial} : \E a \in 1..MaxAmount :
       /\ AllIdle /\ db.deposits = <<>> /\ nreq < MaxReq
       /\ \E g \in {NoGoal} \cup GoalIds : DepositStart(p, U, g, a)
  \/ Deposit(Serial)
  \/ \E p \in Procs :
       /\ db.deposits # <<>>
       /\ resp[p].message \notin WithdrawalMessages
       /\ WithdrawalStart(p, U, db.deposits[1].amount)
  \/ \E p \in Procs : Withdrawal(p)

SpecWithdrawalRace == Init /\ [][NextWithdrawalRace]_vars

Succeeded == {p \in Procs : resp[p].message = "Withdrawal successful"}

AllWithdrawalsDone ==
  /\ AllIdle
  /\ \A p \in Procs : resp[p].message \in {"Withdrawal successful", "Insufficient balance"}

\* C2: when every one of N >= 2 handlers has withdrawn amount A from a balance of
\* exactly A and none met a store error, exactly one withdrawal has succeeded, the
\* others were refused for insufficient balance, and total_balance is 0.
C2_ExactlyOneWithdrawalSucceeds ==
  AllWithdrawalsDone =>
    /\ Cardinality(Succeeded) = 1
    /\ db.users[U].total_balance = 0

\* two withdrawals of the whole balance have both succeeded
C2_BothSucceed ==
  /\ AllWithdrawalsDone
  /\ Cardinality(Succeeded) >= 2
  /\ db.users[U].total_balance < 0

\* ------------------------------------------------------- serial ledger

AllocationEntries ==
  [poolType : PoolTypes, protocolId : ProtocolIds, amount : 1..MaxAmount, apy : APYs]

AllocationLists == {<<>>} \cup {<<e>> : e \in AllocationEntries}

ModeInputs == {"lite", "bogus"}

RowIds == 1..2

\* one request at a time: every money, portfolio and status operation of one user
NextLedger ==
  \/ \E p \in {Serial} : \E g \in {NoGoal} \cup GoalIds, a \in Amounts :
       AllIdle /\ nreq < MaxReq /\ DepositStart(p, U, g, a)
  \/ \E p \in {Serial} : Deposit(p)
  \/ \E p \in {Serial} : \E a \in Amounts :
       AllIdle /\ nreq < MaxReq /\ WithdrawalStart(p, U, a)
  \/ \E p \in {Serial} : Withdrawal(p)
  \/ \E p \in {Serial} : \E a \in Amounts :
       AllIdle /\ nreq < MaxReq /\ EarningsStart(p, U, a)
  \/ \E p \in {Serial} : Earnings(p)
  \/ \E p \in {Serial} : \E l \in AllocationLists, m \in ModeInputs :
       AllIdle /\ nreq < MaxReq /\ AllocateStart(p, U, l, m)
  \/ \E p \in {Serial} : Allocate(p)
  \/ \E p \in {Serial} : \E id \in RowIds :
       AllIdle /\ nreq < MaxReq /\ DeallocateStart(p, U, id)
  \/ \E p \in {Serial} : Deallocate(p)
  \/ \E p \in {Serial} :
       AllIdle /\ nreq < MaxReq /\ UpdateEarningsStart(p, U)
  \/ \E p \in {Serial} : UpdateEarnings(p)
  \/ \E p \in {Serial} : \E id \in RowIds, st \in StatusInputs :
       AllIdle /\ nreq < MaxReq /\ UpdateDepositStatus(p, id, st)
  \/ \E p \in {Serial} : \E id \in RowIds, st \in StatusInputs :
       AllIdle /\ nreq < MaxReq /\ UpdateTransactionStatus(p, id, st)

SpecLedger == Init /\ [][NextLedger]_vars

\* confirmed deposits and earnings minus confirmed withdrawals of user u
RECURSIVE LedgerSum(_, _)
LedgerSum(rows, u) ==
  IF rows = <<>> THEN 0
  ELSE LET r == rows[Len(rows)]
           rest == LedgerSum(SubSeq(rows, 1, Len(rows) - 1), u)
       IN IF r.user_id # u \/ r.status # "confirmed" THEN rest
          ELSE IF r.type \in {"deposit", "earnings"} THEN rest + r.amount
          ELSE IF r.type = "withdrawal" THEN rest - r.amount
          ELSE rest

\* C3: after any sequence of completed money, portfolio and status-update operations
\* total_balance equals the confirmed deposit and earnings transactions minus the
\* confirmed withdrawal transactions of the user.
C3_BalanceMatchesLedger ==
  AllIdle => db.users[U].total_balance = LedgerSum(db.transactions, U)

\* ------------------------------------------- allocate, then deallocate

Observed == resp[Observer].body.kind = "user"

\* deposits fund the user, GET /api/users/:userId reads the balance B, and from
\* then on the only requests open a new position and remove it again
NextRoundTrip ==
  \/ \E g \in {NoGoal} \cup GoalIds, a \in 1..MaxAmount :
       AllIdle /\ ~Observed /\ nreq < MaxSeqReq /\ DepositStart(Serial, U, g, a)
  \/ Deposit(Serial)
  \/ AllIdle /\ ~Observed /\ nreq < MaxSeqReq /\ GetUser(Observer, U)
  \/ \E l \in AllocationLists, m \in ModeInputs :
       /\ AllIdle /\ Observed /\ nreq < MaxSeqReq
       /\ DOMAIN db.pool_allocations = {}
       /\ AllocateStart(Serial, U, l, m)
  \/ Allocate(Serial)
  \/ \E id \in RowIds :
       AllIdle /\ Observed /\ nreq < MaxSeqReq /\ DeallocateStart(Serial, U, id)
  \/ Deallocate(Serial)

SpecRoundTrip == Init /\ [][NextRoundTrip]_vars

\* C4: once Allocate has opened a new position and Deallocate has removed it,
\* total_balance is again B, the balance read before the Allocate.
C4_RoundTripRestoresBalance ==
  (Observed /\ resp[Serial].message = "Allocation removed successfully")
    => db.users[U].total_balance = resp[Observer].body.totalBalance

\* ------------------------------------------------- serial withdrawals

\* one request at a time: deposits and withdrawals of one user
NextWithdrawals ==
  \/ \E g \in {NoGoal} \cup GoalIds, a \in 1..MaxAmount :
       AllIdle /\ nreq < MaxSeqReq /\ DepositStart(Serial, U, g, a)
  \/ Deposit(Serial)
  \/ \E u \in UserIds, a \in Amounts :
       AllIdle /\ nreq < MaxSeqReq /\ WithdrawalStart(Serial, u, a)
  \/ Withdrawal(Serial)

SpecWithdrawals == Init /\ [][NextWithdrawals]_vars

WithdrawalPcs == {"w_select", "w_write", "w_commit"}

\* C5: a withdrawal of more than the balance B is refused with "Insufficient balance"
\* and writes nothing; a withdrawal of 0 < amount <= B is not refused, and unless a
\* store error rolls it back its one write to the committed rows, at COMMIT with 201,
\* takes exactly amount from total_balance and appends exactly one confirmed
\* withdrawal transaction of that amount.
C5_WithdrawalChecksBalance ==
  [][ \A p \in Procs :
        LET u == req[p].userId
            a == req[p].amount
        IN (pc[p] \in WithdrawalPcs /\ u \in DOMAIN db.users) =>
             LET B == db.users[u].total_balance
             IN /\ (pc[p] = "w_select" /\ a > B) =>
                     /\ db' = db
                     /\ pc'[p] = "idle"
                     /\ \/ resp'[p] = Response(400, "Insufficient balance")
                        \/ resp'[p].status = 500
                /\ (pc[p] = "w_select" /\ a <= B) =>
                     \/ pc'[p] = "w_write" /\ a > 0
                     \/ resp'[p].status = 500
                /\ pc[p] = "w_write" => (pc'[p] = "w_commit" \/ resp'[p].status = 500)
                /\ \/ db' = db /\ (pc'[p] = "idle" => resp'[p].status # 201)
                   \/ /\ pc[p] = "w_commit"
                      /\ resp'[p] = Response(201, "Withdrawal successful")
                      /\ a <= B
                      /\ db'.users[u].total_balance = B - a
                      /\ Len(db'.transactions) = Len(db.transactions) + 1
                      /\ SubSeq(db'.transactions, 1, Len(db.transactions)) = db.transactions
                      /\ LET t == db'.transactions[Len(db'.transactions)]
                         IN /\ t.user_id = u /\ t.type = "withdrawal"
                            /\ t.amount = a /\ t.status = "confirmed" ]_vars

\* a withdrawal of the whole balance has succeeded, and the one after it was refused
C5_Witness ==
  /\ resp[Serial] = Response(400, "Insufficient balance")
  /\ db.users[U].total_balance = 0
  /\ Len(db.transactions) = 2
  /\ db.transactions[2].type = "withdrawal"
  /\ db.transactions[2].amount = db.transactions[1].amount

\* ------------------------------------------------------ serial streaks

\* one request at a time: deposits and streak reads of one user over the days
NextDepositDays ==
  \/ Tick(MaxDay)
  \/ \E g \in GoalIds, a \in {MaxAmount} :
       AllIdle /\ nreq < MaxSeqReq /\ DepositStart(Serial, U, g, a)
  \/ Deposit(Serial)
  \/ AllIdle /\ nreq < MaxSeqReq /\ StreakGetStart(Serial, U)
  \/ StreakGetDecay(Serial)
  \/ StreakCatch(Serial)

SpecDepositDays == Init /\ [][NextDepositDays]_vars

\* one request at a time: deposits, /check, streak reads and resets over the days
NextStreaks ==
  \/ Tick(MaxDay)
  \/ \E g \in GoalIds, a \in {MaxAmount} :
       AllIdle /\ nreq < MaxSeqReq /\ DepositStart(Serial, U, g, a)
  \/ Deposit(Serial)
  \/ AllIdle /\ nreq < MaxSeqReq /\ StreakGetStart(Serial, U)
  \/ AllIdle /\ nreq < MaxSeqReq /\ StreakCheckStart(Serial, U)
  \/ AllIdle /\ nreq < MaxSeqReq /\ StreakReset(Serial, U)
  \/ Streak(Serial)

SpecStreaks == Init /\ [][NextStreaks]_vars

\* the calendar days on which the user has a committed deposit
DepositDays == {ToISODate(db.deposits[i].deposit_date) : i \in DOMAIN db.deposits}

\* the number of consecutive days of the set that end at day d
RECURSIVE RunLength(_, _)
RunLength(days, d) == IF d \in days THEN 1 + RunLength(days, d - 1) ELSE 0

LongestRun(days) ==
  IF days = {} THEN 0
  ELSE LET runs == {RunLength(days, d) : d \in days}
       IN CHOOSE r \in runs : \A q \in runs : q <= r

\* C6: with deposits and streak reads only, right after a deposit on day d
\* current_streak is the number of consecutive calendar days ending at d that each
\* have a deposit, and longest_streak is the longest such run so far.
C6_StreakCountsConsecutiveDays ==
  resp[Serial] = Response(201, "Deposit successful") =>
    LET d == ToISODate(db.deposits[Len(db.deposits)].deposit_date)
    IN /\ db.streaks[U].current_streak = RunLength(DepositDays, d)
       /\ db.streaks[U].longest_streak = LongestRun(DepositDays)
       /\ db.streaks[U].last_deposit_date = d

\* deposits on three days in a row, and then one after a gap
C6_Witness ==
  /\ resp[Serial] = Response(201, "Deposit successful")
  /\ Len(db.deposits) = 4
  /\ db.streaks[U].current_streak = 1
  /\ db.streaks[U].longest_streak = 3

MissedADay(streak, t) ==
  /\ streak.last_deposit_date # 0
  /\ ToISODate(t) - streak.last_deposit_date > 1
  /\ streak.current_streak > 0

\* C10: a streak read sets current_streak to 0, and changes nothing else, exactly
\* when last_deposit_date is set, more than one whole day has passed since it and
\* current_streak > 0 (unless the store fails the UPDATE); any other read changes no
\* stored state, and after a decaying read the condition no longer holds, so that
\* the next read changes nothing.
C10_PassiveDecayOnRead ==
  [][ \A p \in Procs :
        /\ (pc[p] = "idle" /\ pc'[p] = "idle" /\ nreq' # nreq /\ resp'[p].message = "Streak")
             => (db' = db /\ ~MissedADay(db.streaks[U], now))
        /\ (pc[p] = "idle" /\ pc'[p] = "s_decay")
             => (db' = db /\ MissedADay(db.streaks[U], now))
        /\ pc[p] = "s_decay"
             => /\ MissedADay(db.streaks[U], now)
                /\ \/ resp'[p].status = 500 /\ db' = db
                   \/ /\ resp'[p] = Response(200, "Streak")
                      /\ db' = [db EXCEPT !.streaks[U].current_streak = 0]
                      /\ ~MissedADay(db'.streaks[U], now') ]_vars

\* the second request, a read two days after the only deposit, has reset the streak
C10_Witness ==
  /\ nreq = 2
  /\ resp[Serial] = Response(200, "Streak")
  /\ db.streaks[U].current_streak = 0
  /\ db.streaks[U].longest_streak = 1
  /\ ToISODate(now) - db.streaks[U].last_deposit_date > 1

\* -------------------------------------------------- concurrent streaks

\* deposits, /check, streak reads and resets of one user, side by side
NextStreakRace ==
  \/ Tick(MaxRaceDay)
  \/ \E p \in Procs : nreq < MaxSeqReq /\ DepositStart(p, U, NoGoal, MaxAmount)
  \/ \E p \in Procs : nreq < MaxSeqReq /\ StreakGetStart(p, U)
  \/ \E p \in Procs : nreq < MaxSeqReq /\ StreakCheckStart(p, U)
  \/ \E p \in Procs : nreq < MaxSeqReq /\ StreakReset(p, U)
  \/ \E p \in Procs :
       \/ DepositBalance(p) \/ DepositStreakSelect(p) \/ DepositStreakUpdate(p)
       \/ DepositGrowth(p) \/ DepositTransaction(p) \/ DepositCommit(p)
       \/ DepositCatch(p)
  \/ \E p \in Procs : Streak(p)

SpecStreakRace == Init /\ [][NextStreakRace]_vars

\* C8: longest_streak never decreases, whatever the interleaving of deposits,
\* /check calls, streak reads and resets.
C8_LongestStreakNeverDecreases ==
  [][db'.streaks[U].longest_streak >= db.streaks[U].longest_streak]_vars

\* C9: total_deposits changes only by +1, and only in a step that moves
\* last_deposit_date to a different day.
C9_TotalDepositsCountsDays ==
  [][db'.streaks[U].total_deposits # db.streaks[U].total_deposits =>
       /\ db'.streaks[U].total_deposits = db.streaks[U].total_deposits + 1
       /\ db'.streaks[U].last_deposit_date # db.streaks[U].last_deposit_date]_vars

\* ------------------------------------------------- decay and reset frame

\* C11: passive decay and manual reset write current_streak only: the step of a
\* decaying read and the step of POST /reset leave longest_streak, total_deposits,
\* last_deposit_date and every other stored row exactly as they were.
C11_DecayAndResetKeepTheRest ==
  [][ \A p \in Procs :
        ( \/ pc[p] = "s_decay"
          \/ /\ pc[p] = "idle" /\ nreq' # nreq
             /\ resp'[p].message = "Streak reset successfully" )
        => /\ db'.streaks[U].longest_streak = db.streaks[U].longest_streak
           /\ db'.streaks[U].total_deposits = db.streaks[U].total_deposits
           /\ db'.streaks[U].last_deposit_date = db.streaks[U].last_deposit_date
           /\ db'.streaks[U].current_streak \in {0, db.streaks[U].current_streak}
           /\ db' = [db EXCEPT !.streaks[U].current_streak =
                                 db'.streaks[U].current_streak] ]_vars

\* a reset has zeroed a streak of two days and kept the rest of the row
C11_Witness ==
  /\ resp[Serial] = Response(200, "Streak reset successfully")
  /\ db.streaks[U].current_streak = 0
  /\ db.streaks[U].longest_streak = 2
  /\ db.streaks[U].total_deposits = 2
  /\ db.streaks[U].last_deposit_date = ToISODate(now)

\* ------------------------------------------------------ goal progress

\* C12: a committed deposit with a goal adds exactly its amount to the goal's
\* current_amount and leaves the goal completed when the new current_amount reaches
\* target_amount; no step of any deposit turns is_completed from true to false, and
\* nothing but such a commit changes the goal.
C12_GoalProgress ==
  [][ \A g \in GoalIds :
        LET old == db.savings_goals[g]
            new == db'.savings_goals[g]
        IN /\ old.is_completed => new.is_completed
           /\ \/ new = old
              \/ \E p \in Pair :
                   /\ pc[p] = "d_commit" /\ req[p].goalId = g
                   /\ resp'[p].status = 201
                   /\ new.current_amount = old.current_amount + req[p].amount
                   /\ new.target_amount = old.target_amount
                   /\ new.current_amount >= new.target_amount => new.is_completed ]_vars

\* a goal that was already completed has been topped up
C12_Witness ==
  /\ Len(db.deposits) = 2
  /\ \A i \in 1..2 : db.deposits[i].goal_id \in GoalIds
  /\ \E g \in GoalIds :
       /\ db.savings_goals[g].is_completed
       /\ db.savings_goals[g].current_amount =
            db.deposits[1].amount + db.deposits[2].amount
       /\ db.deposits[1].amount >= db.savings_goals[g].target_amount

\* ------------------------------------------------ deposit without a goal

\* C13: a committed deposit of amount > 0 without a goal adds exactly the amount to
\* total_balance, modifies no savings_goals row, and changes today's daily_growth
\* row only by has_deposit = true: an existing row keeps its earnings and
\* growth_percentage, an absent one is created with both 0; no other day changes.
C13_DepositWithoutGoal ==
  [][ \A p \in Procs :
        ( /\ pc[p] = "d_commit" /\ req[p].goalId = NoGoal
          /\ resp'[p].status = 201 )
        => LET u == req[p].userId
               k == <<u, ToISODate(now)>>
               old == db.daily_growth
               new == db'.daily_growth
           IN /\ req[p].amount > 0
              /\ db'.users[u].total_balance = db.users[u].total_balance + req[p].amount
              /\ db'.savings_goals = db.savings_goals
              /\ DOMAIN new = DOMAIN old \cup {k}
              /\ \A j \in DOMAIN old \ {k} : new[j] = old[j]
              /\ new[k].has_deposit
              /\ new[k].earnings = IF k \in DOMAIN old THEN old[k].earnings ELSE 0
              /\ new[k].growth_percentage =
                   IF k \in DOMAIN old THEN old[k].growth_percentage ELSE 0 ]_vars

\* a deposit without a goal has been committed on a day that already had earnings
C13_Witness ==
  /\ resp[Serial] = Response(201, "Deposit successful")
  /\ Len(db.deposits) = 1 /\ db.deposits[1].goal_id = NoGoal
  /\ db.users[U].total_earnings > 0
  /\ db.users[U].total_balance = db.users[U].total_earnings + db.deposits[1].amount
  /\ db.daily_growth[<<U, ToISODate(now)>>].earnings = db.users[U].total_earnings
  /\ db.daily_growth[<<U, ToISODate(now)>>].has_deposit

\* ---------------------------------------------------- serial portfolio

\* the pool types of the positions
PositionPools == {"lending", "staking"}

\* allocation entries of AllocationUnit and MaxAmount * AllocationUnit
PositionEntries ==
  [poolType : PositionPools, protocolId : ProtocolIds,
   amount : {AllocationUnit, MaxAmount * AllocationUnit}, apy : APYs]

\* one entry, the same entry twice, or two entries that differ in the pool only
PositionLists ==
  {<<e>> : e \in PositionEntries}
    \cup {<<e, e>> : e \in PositionEntries}
    \cup {<<e, [e EXCEPT !.poolType = q]>> :
            e \in PositionEntries, q \in PositionPools \ {"lending"}}

\* one request at a time: the portfolio operations of one user
NextAllocations ==
  \/ \E l \in PositionLists :
       AllIdle /\ nreq < MaxReq /\ AllocateStart(Serial, U, l, "lite")
  \/ Allocate(Serial)
  \/ \E u \in UserIds, id \in 1..next_id :
       AllIdle /\ nreq < MaxReq /\ DeallocateStart(Serial, u, id)
  \/ Deallocate(Serial)
  \/ AllIdle /\ nreq < MaxReq /\ UpdateEarningsStart(Serial, U)
  \/ UpdateEarnings(Serial)

SpecAllocations == Init /\ [][NextAllocations]_vars

\* the entries of list l for position k, in order
EntriesFor(l, u, k) ==
  SelectSeq(l, LAMBDA e : AllocationKey(u, e) = k)

RECURSIVE AmountOf(_)
AmountOf(l) == IF l = <<>> THEN 0 ELSE Head(l).amount + AmountOf(Tail(l))

\* x / 365 / 100, to the nearest unit
NearestPerDay(x) == (2 * x + 36500) \div 73000

C15_AllocateAllOrNothing ==
  [][ \A p \in Procs :
        pc[p] \in {"a_upsert", "a_history", "a_commit"} =>
          \/ db' = db /\ (pc'[p] = "idle" => resp'[p].status = 500)
          \/ LET u == req[p].userId
                 l == req[p].allocations
                 old == db.pool_allocations
                 new == db'.pool_allocations
             IN /\ pc[p] = "a_commit"
                /\ resp'[p] = Response(201, "Deposit allocated successfully")
                /\ db'.allocation_history =
                     Append(db.allocation_history,
                            [user_id |-> u, deposit_id |-> 0,
                             deposit_amount |-> req[p].amount,
                             allocations |-> l, user_mode |-> req[p].userMode])
                /\ \A i \in DOMAIN l :
                     LET k == AllocationKey(u, l[i])
                     IN /\ k \in DOMAIN new
                        /\ new[k].amount_allocated =
                             (IF k \in DOMAIN old THEN old[k].amount_allocated ELSE 0)
                               + AmountOf(EntriesFor(l, u, k)) ]_vars

\* after an Allocate of two positions, a second Allocate has failed at its COMMIT
C15_Witness ==
  /\ resp[Serial].status = 500
  /\ resp[Serial].body.kind = "error"
  /\ resp[Serial].body.at = "a_commit"
  /\ Len(db.allocation_history) = 1
  /\ Len(db.allocation_history[1].allocations) = 2
  /\ Cardinality(DOMAIN db.pool_allocations) = 2
  /\ \A k \in DOMAIN db.pool_allocations :
       db.pool_allocations[k].amount_allocated =
         db.allocation_history[1].allocations[1].amount

\* the positions of user u among the stored rows
PositionsOf(u) ==
  {k \in DOMAIN db.pool_allocations : db.pool_allocations[k].user_id = u}

\* what one UpdateEarnings run adds to the total_earnings of position k
EarnedBy(k) ==
  NearestPerDay(db.pool_allocations[k].amount_allocated * db.pool_allocations[k].current_apy)

RECURSIVE EarnedByAll(_)
EarnedByAll(keys) ==
  IF keys = {} THEN 0
  ELSE LET k == CHOOSE x \in keys : TRUE
       IN EarnedBy(k) + EarnedByAll(keys \ {k})

C17_DeallocateAllOrNothing ==
  [][ \A p \in Procs :
        /\ pc[p] = "idle" /\ nreq' # nreq /\ req'[p].kind = "deallocate" =>
             /\ db' = db
             /\ \E k \in DOMAIN db.pool_allocations :
                  /\ db.pool_allocations[k].id = req'[p].id
                  /\ db.pool_allocations[k].user_id = req'[p].userId
        /\ pc[p] = "idle" /\ nreq' # nreq /\ resp'[p].status = 404 => db' = db
        /\ pc[p] \in {"x_delete", "x_credit", "x_commit"} =>
             \/ db' = db /\ (pc'[p] = "idle" => resp'[p].status = 500)
             \/ LET u == req[p].userId
                    old == db.pool_allocations
                    gone == {k \in DOMAIN old : old[k].id = req[p].id}
                IN /\ pc[p] = "x_commit"
                   /\ resp'[p] = Response(200, "Allocation removed successfully")
                   /\ \E k \in gone :
                        /\ gone = {k}
                        /\ old[k].user_id = u
                        /\ db' = [db EXCEPT
                             !.pool_allocations =
                               [j \in DOMAIN old \ {k} |-> old[j]],
                             !.users[u].total_balance = @ + old[k].amount_allocated] ]_vars

\* a row was removed and credited, and a later call for a missing row changed nothing
C17_Witness ==
  /\ resp[Serial] = Response(404, "Allocation not found")
  /\ db.users[U].total_balance > 0
  /\ DOMAIN db.pool_allocations # {}

\* ------------------------------------------------------------- concurrent portfolio calls

RacePositions ==
  {<<[poolType |-> "lending", protocolId |-> CHOOSE x \in ProtocolIds : TRUE,
      amount |-> AllocationUnit, apy |-> CHOOSE a \in APYs : TRUE]>>}

NextAllocationRace ==
  \/ \E p \in Pair, l \in RacePositions :
       nreq < MaxReq /\ AllocateStart(p, U, l, "lite")
  \/ \E p \in Pair : Allocate(p)
  \/ \E p \in Pair, id \in 1..next_id :
       nreq < MaxReq /\ DeallocateStart(p, U, id)
  \/ \E p \in Pair : Deallocate(p)

SpecAllocationRace == Init /\ [][NextAllocationRace]_vars

RECURSIVE AllocatedIn(_, _)
AllocatedIn(rows, keys) ==
  IF keys = {} THEN 0
  ELSE LET k == CHOOSE x \in keys : TRUE
       IN rows[k].amount_allocated + AllocatedIn(rows, keys \ {k})

\* C18: whatever the interleaving of two Deallocate calls on one allocation, or of
\* a Deallocate with an Allocate to the same position, the amount a committed
\* Deallocate adds to users.total_balance is the amount_allocated of the rows it
\* removes from pool_allocations.
C18_CreditEqualsRemoved ==
  [][ \A p \in Procs :
        pc[p] = "x_commit" /\ resp'[p].status = 200 =>
          db'.users[req[p].userId].total_balance
            - db.users[req[p].userId].total_balance
          = AllocatedIn(db.pool_allocations,
                        DOMAIN db.pool_allocations \ DOMAIN db'.pool_allocations) ]_vars

\* ------------------------------------------------------------- earnings over several days

NextEarnings ==
  \/ Tick(MaxRaceDay)
  \/ \E g \in {NoGoal} \cup GoalIds, a \in {MaxAmount} :
       AllIdle /\ nreq < MaxReq /\ DepositStart(Serial, U, g, a)
  \/ Deposit(Serial)
  \/ \E u \in UserIds, a \in Amounts :
       AllIdle /\ nreq < MaxReq /\ EarningsStart(Serial, u, a)
  \/ Earnings(Serial)

SpecEarnings == Init /\ [][NextEarnings]_vars

\* C19: a committed RecordEarnings(user, amount) adds amount to total_balance and to
\* total_earnings, appends one confirmed earnings transaction of that amount, and
\* adds amount to the earnings of today's daily_growth row (a missing row starts
\* from 0), leaving that row's has_deposit and every other row as they were.
C19_EarningsPosting ==
  [][ \A p \in Procs :
        pc[p] \in {"e_update", "e_growth", "e_commit"} =>
          \/ db' = db /\ (pc'[p] = "idle" => resp'[p].status = 500)
          \/ LET u == req[p].userId
                 a == req[p].amount
                 k == <<u, ToISODate(now)>>
                 old == db.daily_growth
                 new == db'.daily_growth
             IN /\ pc[p] = "e_commit"
                /\ resp'[p].status = 201
                /\ a > 0
                /\ db'.users = [db.users EXCEPT ![u].total_balance = @ + a,
                                                ![u].total_earnings = @ + a]
                /\ db'.transactions =
                     Append(db.transactions,
                            [user_id |-> u, type |-> "earnings", amount |-> a,
                             description |-> <<"Daily yield earnings">>,
                             status |-> "confirmed"])
                /\ db'.deposits = db.deposits
                /\ DOMAIN new = DOMAIN old \cup {k}
                /\ \A j \in DOMAIN old \ {k} : new[j] = old[j]
                /\ new[k].earnings = (IF k \in DOMAIN old THEN old[k].earnings ELSE 0) + a
                /\ new[k].has_deposit = (k \in DOMAIN old /\ old[k].has_deposit) ]_vars

\* two postings of different amounts on a day that also had a deposit
C19_Witness ==
  /\ resp[Serial].status = 201
  /\ Len(SelectSeq(db.transactions, LAMBDA t : t.type = "earnings")) = 2
  /\ \E k \in DOMAIN db.daily_growth :
       /\ db.daily_growth[k].has_deposit
       /\ db.daily_growth[k].earnings = MaxAmount + 1
       /\ db.users[U].total_earnings = MaxAmount + 1

\* ------------------------------------------------------------- APY cache

\* a freshness test that still accepts an entry exactly CACHE_DURATION old
FreshAtBoundary(cached, t) == t - cached.timestamp <= CACHE_DURATION

\* Date.now() - cached.timestamp < CACHE_DURATION
Fresh(cached, t) == t - cached.timestamp < CACHE_DURATION

\* the value a fetcher's catch block returns, in tenths of a percent
Fallback ==
  [id \in KnownProtocolIds |->
     CASE id = "aave-v3-usdc" -> 85
       [] id = "compound-v3-usdc" -> 72
       [] id = "moonwell-usdc" -> 225
       [] id = "moonwell-multi" -> 456
       [] id = "beefy-stable" -> 285
       [] id = "beefy-volatile" -> 523
       [] id = "aerodrome-usdc" -> 687
       [] id = "uniswap-v3" -> 752
       [] OTHER -> 0]

\* the ends of the range a fetcher or the switch draws its value from, in tenths
\* of a percent; for a Beefy vault also what the API can answer
FetchedAPYs(id) ==
  CASE id = "aave-v3-usdc" -> {a * 10 : a \in APYs}
    [] id = "compound-v3-usdc" -> {60, 150}
    [] id = "moonwell-usdc" -> {200, 300}
    [] id = "moonwell-multi" -> {400, 500}
    [] id = "seamless-usdc" -> {180, 230}
    [] id = "seamless-multi" -> {350, 430}
    [] id = "beefy-stable" -> {250, 350}
    [] id = "beefy-volatile" -> {450, 600}
    [] id = "yearn-usdc" -> {230, 300}
    [] id = "aerodrome-usdc" -> {600, 800}
    [] id = "uniswap-v3" -> {600, 800}
    [] OTHER -> {DefaultAPY}

\* the fetchers whose try block awaits something that can reject: axios.get with
\* timeout 5000 in fetchBeefyAPY
CanReject(id) == id \in BeefyIds

\* res.json({ protocolId, currentAPY: apy, lastUpdated: new Date().toISOString() })
APYResponse(id, value) ==
  [status |-> 200, message |-> "",
   body |-> [kind |-> "apy", protocolId |-> id, currentAPY |-> value,
             lastUpdated |-> clock]]

\* GET /protocols/apy/:protocolId, getProtocolAPY: the cache check
GetProtocolAPYStart(p, id) ==
  /\ Accept(p)
  /\ UNCHANGED <<now, db, next_id, tx, apyService>>
  /\ IF apyCache[id] # <<>> /\ Fresh(apyCache[id][1], clock)
     THEN FinishWith(p, APYResponse(id, apyCache[id][1].apy))
     ELSE Goto(p, "apy_fetch",
               [NoReq EXCEPT !.kind = "apy", !.protocolId = id], NoLoc)

\* a fetcher without a catch block: the rejection reaches the route, which answers 500
FetcherThrows(p) ==
  /\ pc[p] = "apy_fetch"
  /\ \/ \E value \in FetchedAPYs(req[p].protocolId) :
          /\ loc' = [loc EXCEPT ![p].apy = value]
          /\ pc' = [pc EXCEPT ![p] = "apy_set"]
          /\ UNCHANGED <<req, resp>>
     \/ /\ CanReject(req[p].protocolId)
        /\ Failure(p, "Failed to fetch APY")
  /\ UNCHANGED <<now, db, next_id, tx, nreq, apyService>>

\* apy = await fetch...(): the try block returns a value, or the awaited call
\* rejects or times out and the catch block returns the fallback
Fetcher(p) ==
  /\ pc[p] = "apy_fetch"
  /\ \/ \E value \in FetchedAPYs(req[p].protocolId) :
          loc' = [loc EXCEPT ![p].apy = value]
     \/ /\ CanReject(req[p].protocolId)
        /\ loc' = [loc EXCEPT ![p].apy = Fallback[req[p].protocolId],
                              ![p].caught = TRUE]
  /\ pc' = [pc EXCEPT ![p] = "apy_set"]
  /\ UNCHANGED <<now, db, next_id, tx, req, resp, nreq, apyService>>

\* apyCache.set(protocolId, { apy, timestamp: Date.now() }); return apy
GetProtocolAPYFetch(p) ==
  /\ pc[p] = "apy_set"
  /\ apyCache' = [apyCache EXCEPT ![req[p].protocolId] =
                    <<[apy |-> loc[p].apy, timestamp |-> clock]>>]
  /\ FinishWith(p, APYResponse(req[p].protocolId, loc[p].apy))
  /\ UNCHANGED <<now, db, next_id, tx, nreq, clock>>

\* a clear that drops only the entries that are no longer fresh
ClearCacheStaleOnly(p) ==
  /\ pc[p] = "idle"
  /\ apyCache' = [id \in DOMAIN apyCache |->
                    IF apyCache[id] # <<>> /\ Fresh(apyCache[id][1], clock)
                    THEN apyCache[id] ELSE <<>>]
  /\ resp' = [resp EXCEPT ![p] = Response(200, "APY cache cleared successfully")]
  /\ UNCHANGED <<now, db, next_id, pc, req, loc, tx, nreq, clock>>

\* DELETE /protocols/cache, clearCache(): apyCache.clear(); res.json({ message })
ClearCache(p) ==
  /\ pc[p] = "idle"
  /\ apyCache' = [id \in DOMAIN apyCache |-> <<>>]
  /\ resp' = [resp EXCEPT ![p] = Response(200, "APY cache cleared successfully")]
  /\ UNCHANGED <<now, db, next_id, pc, req, loc, tx, nreq, clock>>

\* time passes, also while a fetch is awaited
ClockTick ==
  /\ clock < MaxClock
  /\ clock' = clock + 1
  /\ UNCHANGED <<now, db, next_id, pc, req, loc, tx, resp, nreq, apyCache>>

NextAPY ==
  \/ ClockTick
  \/ \E p \in Pair, id \in CachedIds : nreq < MaxReq /\ GetProtocolAPYStart(p, id)
  \/ \E p \in Pair : Fetcher(p)
  \/ \E p \in Pair : GetProtocolAPYFetch(p)
  \/ \E p \in Pair : ClearCache(p)

SpecAPY == Init /\ [][NextAPY]_vars

\* the protocol id of the call handler p starts in this step
CalledId(p) ==
  IF pc'[p] = "apy_fetch" THEN req'[p].protocolId ELSE resp'[p].body.protocolId

\* C20: a GetAPY(id) call that finds a stored entry less than 10 minutes after the
\* entry's timestamp returns the entry's value, invokes no fetcher and leaves the
\* cache as it is; a call made 10 minutes or more after the timestamp invokes the
\* fetcher, and when the fetcher returns the entry holds the returned value and
\* the time of that store.
C20_CacheFreshness ==
  [][ \A p \in Procs :
        /\ pc[p] = "idle" /\ nreq' # nreq /\ (pc'[p] # pc[p] \/ resp'[p] # resp[p]) =>
             LET id == CalledId(p)
             IN /\ apyCache' = apyCache
                /\ apyCache[id] # <<>> =>
                     IF clock - apyCache[id][1].timestamp < CACHE_DURATION
                     THEN /\ pc'[p] = "idle"
                          /\ resp'[p].body.currentAPY = apyCache[id][1].apy
                     ELSE pc'[p] = "apy_fetch"
                /\ apyCache[id] = <<>> => pc'[p] = "apy_fetch"
        /\ pc[p] = "apy_set" /\ pc'[p] = "idle" =>
             apyCache' = [apyCache EXCEPT ![req[p].protocolId] =
                            <<[apy |-> resp'[p].body.currentAPY,
                               timestamp |-> clock]>>] ]_vars

\* an entry was replaced 10 minutes or more after the first one was stored, and a
\* later call within 10 minutes of the new entry was answered from it
C20_Witness ==
  \E id \in ProtocolIds :
    /\ apyCache[id] # <<>>
    /\ apyCache[id][1].timestamp >= CACHE_DURATION
    /\ resp[Serial].body.kind = "apy"
    /\ resp[Serial].body.protocolId = id
    /\ resp[Serial].body.currentAPY = apyCache[id][1].apy
    /\ resp[Serial].body.lastUpdated > apyCache[id][1].timestamp
    /\ resp[Observer].body.kind = "apy"
    /\ resp[Observer].body.protocolId = id
    /\ resp[Observer].body.lastUpdated + CACHE_DURATION <= apyCache[id][1].timestamp

\* ------------------------------------------------------------- fetchers

NextFetchers ==
  \/ ClockTick
  \/ \E id \in AllProtocolIds : AllIdle /\ nreq < MaxFetches /\ GetProtocolAPYStart(Serial, id)
  \/ Fetcher(Serial)
  \/ GetProtocolAPYFetch(Serial)

SpecFetchers == Init /\ [][NextFetchers]_vars

\* C21: GetAPY never fails. A call that reached its fetcher always goes on to store
\* and return a value with status 200; when the fetch raised an error or timed
\* out, the value returned is the protocol's fixed fallback constant, and it is
\* stored in the cache with the current timestamp like any other result.
C21_FetchFailureFallsBack ==
  [][ \A p \in Procs :
        /\ pc[p] = "apy_fetch" /\ pc'[p] # pc[p] =>
             /\ pc'[p] = "apy_set"
             /\ apyCache' = apyCache
        /\ pc[p] = "apy_set" /\ pc'[p] # pc[p] =>
             LET id == req[p].protocolId
             IN /\ pc'[p] = "idle"
                /\ resp'[p].status = 200
                /\ resp'[p].body.protocolId = id
                /\ loc[p].caught =>
                     /\ id \in KnownProtocolIds
                     /\ resp'[p].body.currentAPY = Fallback[id]
                /\ apyCache' = [apyCache EXCEPT ![id] =
                                  <<[apy |-> resp'[p].body.currentAPY,
                                     timestamp |-> clock]>>] ]_vars

\* a Beefy fetch failed after some time had passed: the caller got the vault's
\* fallback and the cache holds it with the time of the store
C21_Witness ==
  \E id \in BeefyIds :
    /\ pc[Serial] = "idle"
    /\ resp[Serial].body.kind = "apy"
    /\ resp[Serial].body.protocolId = id
    /\ resp[Serial].body.currentAPY = Fallback[id]
    /\ resp[Serial].body.lastUpdated > 0
    /\ apyCache[id] = <<[apy |-> Fallback[id],
                         timestamp |-> resp[Serial].body.lastUpdated]>>

\* ------------------------------------------------------------- batch lookups

\* req.body.protocolIds that is missing or not an array
NotAnArray == <<"none">>

BatchIds == {"aave-v3-usdc", "beefy-stable"}

\* req.body.protocolIds: up to two ids, the same id twice included
BatchLists ==
  {<<>>} \cup {<<a>> : a \in BatchIds} \cup {<<a, b>> : a \in BatchIds, b \in BatchIds}

\* one callback of protocolIds.map: getProtocolAPY(id) up to its first await
BatchCall(id) ==
  IF apyCache[id] # <<>> /\ Fresh(apyCache[id][1], clock)
  THEN [id |-> id, at |-> "done", apy |-> apyCache[id][1].apy, caught |-> FALSE]
  ELSE [id |-> id, at |-> "fetch", apy |-> 0, caught |-> FALSE]

\* results after the callbacks that returned from the cache have assigned theirs
BatchHits(calls) ==
  LET hit == {i \in DOMAIN calls : calls[i].at = "done"}
      ids == {calls[i].id : i \in hit}
  IN [id \in ids |-> apyCache[id][1].apy]

\* POST /protocols/apy/batch: validation, then getBatchAPY starts every callback
BatchStart(p, ids) ==
  /\ Accept(p)
  /\ UNCHANGED <<now, db, next_id, tx, apyService>>
  /\ IF ids = NotAnArray
     THEN Finish(p, 400, "protocolIds array is required")
     ELSE LET calls == [i \in DOMAIN ids |-> BatchCall(ids[i])]
          IN Goto(p, "b_wait", [NoReq EXCEPT !.kind = "batch"],
                  [NoLoc EXCEPT !.rows = calls, !.results = BatchHits(calls)])

\* a fetcher of the batch without a catch block, inside a Promise.all without one
BatchFetcherThrows(p) ==
  /\ pc[p] = "b_wait"
  /\ \E i \in DOMAIN loc[p].rows :
       /\ loc[p].rows[i].at = "fetch"
       /\ \/ \E value \in FetchedAPYs(loc[p].rows[i].id) :
               /\ loc' = [loc EXCEPT ![p].rows[i].apy = value, ![p].rows[i].at = "set"]
               /\ UNCHANGED <<pc, req, resp>>
          \/ /\ CanReject(loc[p].rows[i].id)
             /\ Failure(p, "Failed to fetch batch APY")
  /\ UNCHANGED <<now, db, next_id, tx, nreq, apyService>>

\* the fetcher of one callback settles: a value, or the fallback of its catch block
BatchFetcher(p) ==
  /\ pc[p] = "b_wait"
  /\ \E i \in DOMAIN loc[p].rows :
       /\ loc[p].rows[i].at = "fetch"
       /\ \/ \E value \in FetchedAPYs(loc[p].rows[i].id) :
               loc' = [loc EXCEPT ![p].rows[i].apy = value, ![p].rows[i].at = "set"]
          \/ /\ CanReject(loc[p].rows[i].id)
             /\ loc' = [loc EXCEPT ![p].rows[i].apy = Fallback[loc[p].rows[i].id],
                                   ![p].rows[i].caught = TRUE,
                                   ![p].rows[i].at = "set"]
  /\ UNCHANGED <<now, db, next_id, pc, tx, req, resp, nreq, apyService>>

\* apyCache.set(...) of one callback, then results[id] = the value returned
BatchSet(p) ==
  /\ pc[p] = "b_wait"
  /\ \E i \in DOMAIN loc[p].rows :
       LET call == loc[p].rows[i]
       IN /\ call.at = "set"
          /\ apyCache' = [apyCache EXCEPT ![call.id] =
                            <<[apy |-> call.apy, timestamp |-> clock]>>]
          /\ loc' = [loc EXCEPT ![p].rows[i].at = "done",
                                ![p].results = (call.id :> call.apy) @@ @]
  /\ UNCHANGED <<now, db, next_id, pc, tx, req, resp, nreq, clock>>

\* Promise.all resolves; res.json({ data: apyData, lastUpdated })
BatchRespond(p) ==
  /\ pc[p] = "b_wait"
  /\ \A i \in DOMAIN loc[p].rows : loc[p].rows[i].at = "done"
  /\ FinishWith(p, [status |-> 200, message |-> "",
                    body |-> [kind |-> "batch", data |-> loc[p].results,
                              lastUpdated |-> clock]])
  /\ UNCHANGED <<now, db, next_id, tx, nreq, apyService>>

NextBatch ==
  \/ ClockTick
  \/ \E ids \in BatchLists \cup {NotAnArray} :
       AllIdle /\ nreq < MaxFetches /\ BatchStart(Serial, ids)
  \/ BatchFetcher(Serial)
  \/ BatchSet(Serial)
  \/ BatchRespond(Serial)

SpecBatch == Init /\ [][NextBatch]_vars

\* C22: GetBatchAPY never fails as a whole. Its result has exactly one entry for
\* every requested id; a callback that settles, failing or not, leaves the other
\* callbacks, the results of other ids and the cache entries of other ids alone;
\* and the entry of an id whose fetch failed is that protocol's fallback value.
C22_BatchIsolatesFailures ==
  [][ \A p \in Procs :
        pc[p] = "b_wait" =>
          LET calls == loc[p].rows
              asked == {calls[i].id : i \in DOMAIN calls}
          IN /\ pc'[p] # pc[p] =>
                  /\ pc'[p] = "idle"
                  /\ resp'[p].status = 200
                  /\ DOMAIN resp'[p].body.data = asked
                  /\ \A id \in asked :
                       LET mine == {i \in DOMAIN calls : calls[i].id = id}
                       IN /\ resp'[p].body.data[id] \in {calls[i].apy : i \in mine}
                          /\ (\A i \in mine : calls[i].caught) =>
                               resp'[p].body.data[id] = Fallback[id]
             /\ \A i \in DOMAIN calls :
                  (pc'[p] = pc[p] /\ loc'[p].rows[i] # calls[i]) =>
                    /\ \A j \in DOMAIN calls \ {i} : loc'[p].rows[j] = calls[j]
                    /\ \A id \in DOMAIN loc[p].results \ {calls[i].id} :
                         /\ id \in DOMAIN loc'[p].results
                         /\ loc'[p].results[id] = loc[p].results[id]
                    /\ \A id \in DOMAIN apyCache \ {calls[i].id} :
                         apyCache'[id] = apyCache[id] ]_vars

\* a batch of two ids was answered after the Beefy fetch had failed: the vault has
\* its fallback, the other id its own value
C22_Witness ==
  /\ pc[Serial] = "idle"
  /\ resp[Serial].status = 200
  /\ resp[Serial].body.kind = "batch"
  /\ DOMAIN resp[Serial].body.data = {"beefy-stable", "aave-v3-usdc"}
  /\ resp[Serial].body.data["beefy-stable"] = Fallback["beefy-stable"]
  /\ resp[Serial].body.data["aave-v3-usdc"] \in FetchedAPYs("aave-v3-usdc")

\* C23: ClearCache drops every cache entry, and the next GetAPY(id), for any id,
\* finds no entry and invokes the fetcher, however young the dropped entry was.
C23_ClearCacheDropsAll ==
  [][ \A p \in Procs :
        /\ ( /\ pc[p] = "idle" /\ pc' = pc /\ nreq' = nreq
             /\ resp'[p] = Response(200, "APY cache cleared successfully")
             /\ (resp'[p] # resp[p] \/ apyCache' # apyCache) )
           => \A id \in DOMAIN apyCache' : apyCache'[id] = <<>>
        /\ ( /\ pc[p] = "idle" /\ nreq' # nreq
             /\ (pc'[p] # pc[p] \/ resp'[p] # resp[p]) )
           => \A id \in DOMAIN apyCache :
                (apyCache[id] = <<>> /\ CalledId(p) = id) => pc'[p] = "apy_fetch" ]_vars

\* within the same tick in which one caller was answered for id, the other caller
\* cleared the cache, asked for id and is now waiting for the fetcher
C23_Witness ==
  \E id \in ProtocolIds :
    /\ resp[Observer].body.kind = "apy"
    /\ resp[Observer].body.protocolId = id
    /\ resp[Observer].body.lastUpdated = clock
    /\ resp[Serial] = Response(200, "APY cache cleared successfully")
    /\ pc[Serial] = "apy_fetch"
    /\ req[Serial].protocolId = id
    /\ apyCache[id] = <<>>

\* ------------------------------------------------------------- main goal, default payment method

\* the ids uuid_generate_v4() gives to the goals and payment methods created later
CreatedGoalIds == <<"g2", "g3">>
CreatedMethodIds == <<"m1", "m2">>

\* the first id of the pool that no row of the table uses yet
FreshId(pool, rows) ==
  pool[CHOOSE i \in DOMAIN pool :
         /\ pool[i] \notin DOMAIN rows
         /\ \A j \in 1..(i - 1) : pool[j] \in DOMAIN rows]

HasFreshId(pool, rows) == \E i \in DOMAIN pool : pool[i] \notin DOMAIN rows

Frequencies == {"monthly", "yearly"}

\* UPDATE T SET flag = false WHERE user_id = $1 [AND id != $2]
Unset(rows, flag, u, keep) ==
  [k \in DOMAIN rows |->
     IF rows[k].user_id = u /\ k # keep
     THEN [rows[k] EXCEPT ![flag] = FALSE] ELSE rows[k]]

\* POST /api/goals/:userId: validation
CreateGoalStart(p, u, frequency, isMainGoal) ==
  /\ Accept(p)
  /\ UNCHANGED <<apyService, now, db, next_id, tx>>
  /\ IF frequency \notin {"weekly", "monthly"}
     THEN Finish(p, 400, "Frequency must be weekly or monthly")
     ELSE Goto(p, IF isMainGoal THEN "g_unset" ELSE "g_insert",
               [NoReq EXCEPT !.kind = "goal", !.userId = u, !.isMainGoal = isMainGoal],
               NoLoc)

\* UPDATE savings_goals SET is_main_goal = false WHERE user_id = $1
CreateGoalUnset(p) ==
  /\ pc[p] = "g_unset"
  /\ \A g \in DOMAIN db.savings_goals : ~Locked(p, "savings_goals", g)
  /\ db' = [db EXCEPT !.savings_goals = Unset(@, "is_main_goal", req[p].userId, "none")]
  /\ pc' = [pc EXCEPT ![p] = "g_insert"]
  /\ UNCHANGED <<apyService, now, next_id, req, loc, tx, resp, nreq>>

\* INSERT INTO savings_goals (..., is_main_goal) VALUES (..., isMainGoal || false)
CreateGoalInsert(p) ==
  LET u == req[p].userId
  IN /\ pc[p] = "g_insert"
     /\ HasFreshId(CreatedGoalIds, db.savings_goals)
     /\ UNCHANGED <<apyService, now, next_id, tx, nreq>>
     /\ IF u \notin DOMAIN db.users
        THEN \* foreign key violation
             /\ Failure(p, "Failed to create goal")
             /\ UNCHANGED db
        ELSE /\ db' = [db EXCEPT !.savings_goals =
                        (FreshId(CreatedGoalIds, @) :>
                           [NewGoal(u) EXCEPT !.is_main_goal = req[p].isMainGoal]) @@ @]
             /\ Finish(p, 201, "goal")

\* a statement throws: catch, res.status(500); what ran before stays
CreateGoalCatch(p) ==
  /\ pc[p] \in {"g_unset", "g_insert"}
  /\ Failure(p, "Failed to create goal")
  /\ UNCHANGED <<apyService, now, db, next_id, tx, nreq>>

CreateGoal(p) == CreateGoalUnset(p) \/ CreateGoalInsert(p) \/ CreateGoalCatch(p)

\* PUT /api/goals/:goalId with isMainGoal in the body; for isMainGoal = true
\* SELECT user_id FROM savings_goals WHERE id = $1
UpdateGoalStart(p, g, isMainGoal) ==
  /\ Accept(p)
  /\ UNCHANGED <<apyService, now, db, next_id, tx>>
  /\ Goto(p, IF isMainGoal /\ g \in DOMAIN db.savings_goals
             THEN "gu_unset" ELSE "gu_update",
          [NoReq EXCEPT !.kind = "goal_update", !.goalId = g,
                        !.isMainGoal = isMainGoal,
                        !.userId = IF g \in DOMAIN db.savings_goals
                                   THEN db.savings_goals[g].user_id ELSE NoUser],
          NoLoc)

\* UPDATE savings_goals SET is_main_goal = false WHERE user_id = $1 AND id != $2
UpdateGoalUnset(p) ==
  /\ pc[p] = "gu_unset"
  /\ \A g \in DOMAIN db.savings_goals : ~Locked(p, "savings_goals", g)
  /\ db' = [db EXCEPT !.savings_goals =
              Unset(@, "is_main_goal", req[p].userId, req[p].goalId)]
  /\ pc' = [pc EXCEPT ![p] = "gu_update"]
  /\ UNCHANGED <<apyService, now, next_id, req, loc, tx, resp, nreq>>

\* UPDATE savings_goals SET is_main_goal = $1 WHERE id = $2 RETURNING *
UpdateGoalUpdate(p) ==
  LET g == req[p].goalId
  IN /\ pc[p] = "gu_update"
     /\ ~Locked(p, "savings_goals", g)
     /\ UNCHANGED <<apyService, now, next_id, tx, nreq>>
     /\ IF g \notin DOMAIN db.savings_goals
        THEN /\ Finish(p, 404, "Goal not found")
             /\ UNCHANGED db
        ELSE /\ db' = [db EXCEPT !.savings_goals[g].is_main_goal = req[p].isMainGoal]
             /\ Finish(p, 200, "goal")

\* a statement throws: catch, res.status(500); what ran before stays
UpdateGoalCatch(p) ==
  /\ pc[p] \in {"gu_unset", "gu_update"}
  /\ Failure(p, "Failed to update goal")
  /\ UNCHANGED <<apyService, now, db, next_id, tx, nreq>>

UpdateGoal(p) == UpdateGoalUnset(p) \/ UpdateGoalUpdate(p) \/ UpdateGoalCatch(p)

PaymentTypes == {"gopay", "card"}

\* POST /api/payment-methods/:userId: validation
CreatePaymentMethodStart(p, u, type, isDefault) ==
  /\ Accept(p)
  /\ UNCHANGED <<apyService, now, db, next_id, tx>>
  /\ IF type \notin {"gopay", "dana", "ovo", "bank", "wallet"}
     THEN Finish(p, 400, "Invalid payment method type")
     ELSE Goto(p, IF isDefault THEN "m_unset" ELSE "m_insert",
               [NoReq EXCEPT !.kind = "payment_method", !.userId = u,
                             !.isDefault = isDefault],
               NoLoc)

\* UPDATE payment_methods SET is_default = false WHERE user_id = $1
CreatePaymentMethodUnset(p) ==
  /\ pc[p] = "m_unset"
  /\ \A m \in DOMAIN db.payment_methods : ~Locked(p, "payment_methods", m)
  /\ db' = [db EXCEPT !.payment_methods = Unset(@, "is_default", req[p].userId, "none")]
  /\ pc' = [pc EXCEPT ![p] = "m_insert"]
  /\ UNCHANGED <<apyService, now, next_id, req, loc, tx, resp, nreq>>

\* INSERT INTO payment_methods (..., is_default, is_active) VALUES (..., isDefault || false, true)
CreatePaymentMethodInsert(p) ==
  LET u == req[p].userId
  IN /\ pc[p] = "m_insert"
     /\ HasFreshId(CreatedMethodIds, db.payment_methods)
     /\ UNCHANGED <<apyService, now, next_id, tx, nreq>>
     /\ IF u \notin DOMAIN db.users
        THEN \* foreign key violation
             /\ Failure(p, "Failed to create payment method")
             /\ UNCHANGED db
        ELSE /\ db' = [db EXCEPT !.payment_methods =
                        (FreshId(CreatedMethodIds, @) :>
                           [user_id |-> u, is_default |-> req[p].isDefault,
                            is_active |-> TRUE]) @@ @]
             /\ Finish(p, 201, "payment method")

\* a statement throws: catch, res.status(500); what ran before stays
CreatePaymentMethodCatch(p) ==
  /\ pc[p] \in {"m_unset", "m_insert"}
  /\ Failure(p, "Failed to create payment method")
  /\ UNCHANGED <<apyService, now, db, next_id, tx, nreq>>

CreatePaymentMethod(p) ==
  CreatePaymentMethodUnset(p) \/ CreatePaymentMethodInsert(p) \/ CreatePaymentMethodCatch(p)

NextFlags ==
  \/ \E p \in Pair, u \in UserIds, f \in Frequencies, b \in BOOLEAN :
       nreq < MaxReq /\ CreateGoalStart(p, u, f, b)
  \/ \E p \in Pair : CreateGoal(p)
  \/ \E p \in Pair, g \in {"g1", "g2", MissingGoal}, b \in BOOLEAN :
       nreq < MaxReq /\ UpdateGoalStart(p, g, b)
  \/ \E p \in Pair : UpdateGoal(p)
  \/ \E p \in Pair, u \in UserIds, t \in PaymentTypes, b \in BOOLEAN :
       nreq < MaxReq /\ CreatePaymentMethodStart(p, u, t, b)
  \/ \E p \in Pair : CreatePaymentMethod(p)

SpecFlags == Init /\ [][NextFlags]_vars

\* C24: in every reachable state, whatever the interleaving of create and update
\* requests, each user has at most one savings goal with is_main_goal = true and
\* at most one payment method with is_default = true.
C24_OneMainGoalOneDefault ==
  \A u \in Users :
    /\ Cardinality({g \in DOMAIN db.savings_goals :
                      db.savings_goals[g].user_id = u
                      /\ db.savings_goals[g].is_main_goal}) <= 1
    /\ Cardinality({m \in DOMAIN db.payment_methods :
                      db.payment_methods[m].user_id = u
                      /\ db.payment_methods[m].is_default}) <= 1

\* C25: UpdateDepositStatus and UpdateTransactionStatus change only the status
\* field of the addressed row, to the status asked for; balances, earnings, goals,
\* streaks, daily_growth and every other row stay; a status outside pending,
\* confirmed, failed or an unknown id changes nothing.
C25_StatusUpdateChangesOnlyStatus ==
  [][ \A p \in Procs :
        (pc[p] = "idle" /\ pc'[p] = "idle" /\ nreq' # nreq /\ resp'[p] # resp[p]) =>
          LET r == resp'[p]
          IN /\ r.message = "Deposit status updated" =>
                  /\ r.body.id \in DOMAIN db.deposits
                  /\ r.body.status \in {"pending", "confirmed", "failed"}
                  /\ db' = [db EXCEPT !.deposits[r.body.id].status = r.body.status]
             /\ r.message = "Transaction status updated" =>
                  /\ r.body.id \in DOMAIN db.transactions
                  /\ r.body.status \in {"pending", "confirmed", "failed"}
                  /\ db' = [db EXCEPT !.transactions[r.body.id].status = r.body.status]
             /\ r.message \in {"Invalid status", "Deposit not found",
                               "Transaction not found"} => db' = db
             /\ r.status \in {400, 404} => db' = db ]_vars

\* a confirmed deposit was marked failed and the balance still holds its amount
C25_Witness ==
  /\ resp[Serial].message = "Deposit status updated"
  /\ resp[Serial].body.status = "failed"
  /\ resp[Serial].body.id \in DOMAIN db.deposits
  /\ db.deposits[resp[Serial].body.id].status = "failed"
  /\ db.deposits[resp[Serial].body.id].amount > 0
  /\ db.users[U].total_balance = db.deposits[resp[Serial].body.id].amount

\* ------------------------------------------------------------- connect-wallet

\* req.body.walletAddress: missing, the address of u1 in two spellings, a new one
\* in two spellings
WalletInputs == {"", "0xaa", "0xAA", "0xbb", "0xBB"}

\* walletAddress.toLowerCase()
ToLowerCase(a) ==
  CASE a = "0xAA" -> "0xaa"
    [] a = "0xBB" -> "0xbb"
    [] OTHER -> a

\* the ids uuid_generate_v4() gives to the users created later
CreatedUserIds == <<"u2", "u3">>

\* SELECT * FROM users WHERE wallet_address = $1
UsersWithWallet(a) == {u \in DOMAIN db.users : db.users[u].wallet_address = a}

\* POST /api/auth/connect-wallet: validation and the SELECT
ConnectWalletStart(p, walletAddress) ==
  /\ Accept(p)
  /\ UNCHANGED <<apyService, now, db, next_id, tx>>
  /\ IF walletAddress = ""
     THEN Finish(p, 400, "Wallet address is required")
     ELSE IF UsersWithWallet(ToLowerCase(walletAddress)) # {}
     THEN Finish(p, 200, "Wallet connected successfully")
     ELSE Goto(p, "w_user",
               [NoReq EXCEPT !.kind = "connect",
                             !.walletAddress = ToLowerCase(walletAddress)],
               NoLoc)

\* INSERT INTO users (wallet_address, mode, total_balance, total_earnings)
ConnectWalletUser(p) ==
  /\ pc[p] = "w_user"
  /\ HasFreshId(CreatedUserIds, db.users)
  /\ UNCHANGED <<apyService, now, next_id, tx, nreq>>
  /\ IF UsersWithWallet(req[p].walletAddress) # {}
     THEN \* wallet_address is UNIQUE
          /\ Failure(p, "Failed to connect wallet")
          /\ UNCHANGED db
     ELSE LET u == FreshId(CreatedUserIds, db.users)
          IN /\ db' = [db EXCEPT !.users =
                         (u :> [NewUser EXCEPT !.wallet_address = req[p].walletAddress])
                           @@ @]
             /\ pc' = [pc EXCEPT ![p] = "w_streak"]
             /\ req' = [req EXCEPT ![p].userId = u]
             /\ UNCHANGED <<loc, resp>>

\* INSERT INTO streaks (user_id, current_streak, longest_streak, total_deposits);
\* res.json
ConnectWalletStreak(p) ==
  /\ pc[p] = "w_streak"
  /\ UNCHANGED <<apyService, now, next_id, tx, nreq>>
  /\ IF req[p].userId \in DOMAIN db.streaks
     THEN \* streaks.user_id is UNIQUE
          /\ Failure(p, "Failed to connect wallet")
          /\ UNCHANGED db
     ELSE /\ db' = [db EXCEPT !.streaks = (req[p].userId :> NewStreak) @@ @]
          /\ Finish(p, 200, "Wallet connected successfully")

\* a statement throws: catch, res.status(500); what ran before stays
ConnectWalletCatch(p) ==
  /\ pc[p] \in {"w_user", "w_streak"}
  /\ Failure(p, "Failed to connect wallet")
  /\ UNCHANGED <<apyService, now, db, next_id, tx, nreq>>

ConnectWallet(p) ==
  ConnectWalletUser(p) \/ ConnectWalletStreak(p) \/ ConnectWalletCatch(p)

\* GET /api/streak/:userId of a user without a streak row: the SELECT finds nothing
StreakGetMissing(p, u) ==
  /\ Accept(p)
  /\ u \in DOMAIN db.users
  /\ u \notin DOMAIN db.streaks
  /\ UNCHANGED <<apyService, now, db, next_id, tx>>
  /\ Goto(p, "s_create", [NoReq EXCEPT !.kind = "streak_get", !.userId = u], NoLoc)

\* INSERT INTO streaks ... RETURNING *; res.json, or the catch when it throws
StreakGetCreate(p) ==
  /\ pc[p] = "s_create"
  /\ UNCHANGED <<apyService, now, next_id, tx, nreq>>
  /\ \/ /\ req[p].userId \notin DOMAIN db.streaks
        /\ db' = [db EXCEPT !.streaks = (req[p].userId :> NewStreak) @@ @]
        /\ Finish(p, 200, "Streak")
     \/ /\ Failure(p, "Failed to get streak")
        /\ UNCHANGED db

NextWallet ==
  \/ \E p \in Pair, a \in WalletInputs : nreq < MaxReq /\ ConnectWalletStart(p, a)
  \/ \E p \in Pair : ConnectWallet(p)
  \/ \E p \in Pair, u \in {CreatedUserIds[i] : i \in DOMAIN CreatedUserIds} :
       nreq < MaxReq /\ StreakGetMissing(p, u)
  \/ \E p \in Pair : StreakGetCreate(p)

SpecWallet == Init /\ [][NextWallet]_vars

\* C26: once the connect-wallet calls have returned, also after a failure between
\* the two inserts or concurrent first connects of one address, every users row
\* has its streaks row.
C26_EveryUserHasAStreak ==
  AllIdle => \A u \in DOMAIN db.users : u \in DOMAIN db.streaks

\* ------------------------------------------------------- input validation

\* amounts around zero; zero also stands for a missing amount (!amount)
ValidationAmounts == {0 - 1, 0, 1}

UnknownPoolType == "bogus"

\* one-entry allocation lists with a zero or positive amount and a pool type the
\* schema knows or does not know
ValidationEntries ==
  [poolType : {"lending", UnknownPoolType}, protocolId : ProtocolIds,
   amount : {0, 1}, apy : {DefaultAPY}]

ValidationLists == {<<e>> : e \in ValidationEntries}

\* one request at a time: the four posting operations of one user, valid and invalid
NextValidation ==
  \/ \E g \in {NoGoal} \cup GoalIds, a \in ValidationAmounts :
       AllIdle /\ nreq < MaxReq /\ DepositStart(Serial, U, g, a)
  \/ Deposit(Serial)
  \/ \E a \in ValidationAmounts :
       AllIdle /\ nreq < MaxReq /\ WithdrawalStart(Serial, U, a)
  \/ Withdrawal(Serial)
  \/ \E a \in ValidationAmounts :
       AllIdle /\ nreq < MaxReq /\ EarningsStart(Serial, U, a)
  \/ Earnings(Serial)
  \/ \E l \in ValidationLists, m \in ModeInputs :
       AllIdle /\ nreq < MaxReq /\ AllocateStart(Serial, U, l, m)
  \/ Allocate(Serial)

SpecValidation == Init /\ [][NextValidation]_vars

\* request r breaks a validation rule: a non-positive amount of a posting, an
\* unknown user mode, or an entry with a non-positive amount or an unknown pool type
InvalidRequest(r) ==
  \/ r.kind \in {"deposit", "withdrawal", "earnings"} /\ r.amount <= 0
  \/ /\ r.kind = "allocate"
     /\ \/ r.userMode \notin UserModes
        \/ \E i \in DOMAIN r.allocations :
             \/ r.allocations[i].amount <= 0
             \/ r.allocations[i].poolType \notin SchemaPoolTypes

\* C27: a deposit, withdrawal or earnings posting with a missing or non-positive
\* amount, and an allocation with a non-positive entry amount, an unknown user mode
\* or an unknown pool type, is answered with an error and leaves every table as it
\* was: a call answered before its transaction begins is an error that changed
\* nothing, and no invalid request that was taken into a transaction changes a
\* table or is answered with a success.
C27_ValidationErrorsMutateNothing ==
  [][ /\ (pc[Serial] = "idle" /\ pc'[Serial] = "idle" /\ nreq' # nreq)
           => (resp'[Serial].status >= 400 /\ db' = db)
      /\ (pc[Serial] # "idle" /\ InvalidRequest(req[Serial]))
           => /\ db' = db
              /\ pc'[Serial] = "idle" => resp'[Serial].status >= 400 ]_vars

\* ------------------------------------------------------- append-only ledger

\* sequence new keeps every row of sequence old in its place, field status apart
KeepsRowsButStatus(old, new) ==
  /\ Len(new) >= Len(old)
  /\ \A i \in DOMAIN old : [new[i] EXCEPT !.status = old[i].status] = old[i]

\* C28: no operation deletes a transactions or allocation_history row or changes a
\* field of an existing one other than transactions.status, and every successful
\* deposit, withdrawal and earnings posting appends exactly one transactions row
\* of its type and amount with status confirmed.
C28_LedgerAppendOnly ==
  [][ /\ KeepsRowsButStatus(db.transactions, db'.transactions)
      /\ Len(db'.allocation_history) >= Len(db.allocation_history)
      /\ \A i \in DOMAIN db.allocation_history :
           db'.allocation_history[i] = db.allocation_history[i]
      /\ \A p \in Procs :
           ( /\ pc[p] # "idle" /\ pc'[p] = "idle"
             /\ req[p].kind \in {"deposit", "withdrawal", "earnings"}
             /\ resp'[p].status < 400 ) =>
             LET n == Len(db'.transactions)
             IN /\ n = Len(db.transactions) + 1
                /\ db'.transactions[n].user_id = req[p].userId
                /\ db'.transactions[n].type = req[p].kind
                /\ db'.transactions[n].amount = req[p].amount
                /\ db'.transactions[n].status = "confirmed" ]_vars

\* a deposit and a withdrawal are on the ledger in the order they were posted, and
\* the deposit's row has since been marked failed
C28_Witness ==
  /\ AllIdle
  /\ Len(db.transactions) = 2
  /\ db.transactions[1].type = "deposit" /\ db.transactions[1].status = "failed"
  /\ db.transactions[2].type = "withdrawal"
  /\ db.transactions[2].status = "confirmed"

\* ------------------------------------------------------- monotonic positions

\* one-entry allocation lists whose amount is a whole number of allocation units,
\* positive or negative: the handler checks neither the sign nor the size
SignedEntries ==
  [poolType : {"lending"}, protocolId : ProtocolIds,
   amount : {0 - MaxAmount * AllocationUnit, AllocationUnit, MaxAmount * AllocationUnit},
   apy : APYs]

\* one request at a time: allocations and earnings updates of one user
NextSignedAllocations ==
  \/ \E e \in SignedEntries :
       AllIdle /\ nreq < MaxSeqReq /\ AllocateStart(Serial, U, <<e>>, "lite")
  \/ Allocate(Serial)
  \/ AllIdle /\ nreq < MaxSeqReq /\ UpdateEarningsStart(Serial, U)
  \/ UpdateEarnings(Serial)

SpecSignedAllocations == Init /\ [][NextSignedAllocations]_vars

GrowthAmounts == {10, 20}

\* one request at a time: earnings postings of one user over a few days
NextGrowth ==
  \/ Tick(MaxRaceDay)
  \/ \E a \in GrowthAmounts :
       AllIdle /\ nreq < MaxSeqReq /\ EarningsStart(Serial, U, a)
  \/ Earnings(Serial)

SpecGrowth == Init /\ [][NextGrowth]_vars

\* earnings / 1000 * 100, to the nearest unit of the column
PercentOfThousand(earnings) == (2 * earnings + 10) \div 20

\* C30: after every successful RecordEarnings, the growth_percentage of today's
\* daily_growth row is earnings / 1000 * 100 of the earnings that row has
\* accumulated, also after two or more postings on one day.
C30_GrowthFollowsAccumulatedEarnings ==
  [][ \A p \in Procs :
        (pc[p] = "e_commit" /\ resp'[p].status = 201) =>
          LET k == <<req[p].userId, loc[p].today>>
          IN /\ k \in DOMAIN db'.daily_growth
             /\ db'.daily_growth[k].growth_percentage =
                  PercentOfThousand(db'.daily_growth[k].earnings) ]_vars

\* ------------------------------------------------------- deposits without a goal

\* a committed deposit of p without a goal, by a user who has a streak row
GoallessDeposit(p) ==
  /\ pc[p] = "d_commit"
  /\ resp'[p].status = 201
  /\ req[p].goalId = NoGoal
  /\ req[p].userId \in DOMAIN db.streaks

\* C31 as stated: a deposit with amount > 0 and no goal writes nothing to the
\* user's streaks row: current_streak, longest_streak, last_deposit_date and
\* total_deposits are the same before and after it.
C31_GoallessDepositKeepsStreak ==
  [][ \A p \in Procs :
        GoallessDeposit(p) =>
          db'.streaks[req[p].userId] = db.streaks[req[p].userId] ]_vars

\* C31 amended: a deposit with amount > 0 and no goal runs the streak step like any
\* other deposit: the streaks row is unchanged when last_deposit_date is today, and
\* otherwise gets the next streak, the larger of it and longest_streak, today as
\* last_deposit_date and total_deposits + 1.
C31_GoallessDepositRunsStreakStep ==
  [][ \A p \in Procs :
        GoallessDeposit(p) =>
          LET streak == db.streaks[req[p].userId]
              today == ToISODate(now)
              newStreak == NextStreak(streak, today)
          IN db'.streaks[req[p].userId] =
               IF StreakChanges(streak, today)
               THEN StreakRowUpdate(streak, newStreak,
                                    LongestStreak(streak, newStreak), today)
               ELSE streak ]_vars

\* two deposits without a goal on consecutive days have built a streak of two
C31_Witness ==
  /\ resp[Serial] = Response(201, "Deposit successful")
  /\ Len(db.deposits) = 2
  /\ \A i \in DOMAIN db.deposits : db.deposits[i].goal_id = NoGoal
  /\ db.streaks[U].current_streak = 2
  /\ db.streaks[U].total_deposits = 2

\* ------------------------------------------------------- concurrent deposits

\* deposits of one user that run side by side, with and without the goal, of
\* amounts below and at the goal's target, each of which may fail at any statement
NextDepositRace ==
  \/ \E p \in Pair : \E g \in {NoGoal} \cup GoalIds, a \in 1..MaxAmount :
       nreq < MaxReq /\ DepositStart(p, U, g, a)
  \/ \E p \in Pair : Deposit(p)

SpecDepositRace == Init /\ [][NextDepositRace]_vars

RECURSIVE AmountSum(_)
AmountSum(rows) == IF rows = <<>> THEN 0 ELSE Head(rows).amount + AmountSum(Tail(rows))

DepositTransactions(rows) == SelectSeq(rows, LAMBDA t : t.type = "deposit")

\* the committed rows account for every committed deposit
DepositsAccountedFor(d) ==
  /\ d.users[U].total_balance =
       AmountSum(SelectSeq(d.deposits, LAMBDA r : r.user_id = U))
  /\ \A g \in GoalIds :
       /\ d.savings_goals[g].current_amount =
            AmountSum(SelectSeq(d.deposits, LAMBDA r : r.goal_id = g))
       /\ d.savings_goals[g].current_amount >= d.savings_goals[g].target_amount
            => d.savings_goals[g].is_completed
  /\ Len(DepositTransactions(d.transactions)) = Len(d.deposits)

\* C32: concurrent deposits of one user lose no update: each committed call adds
\* one deposits row, one deposit transactions row, its amount to total_balance and,
\* when it names the goal, its amount to the goal's current_amount; nothing else
\* changes the committed rows; so total_balance is the sum of the committed
\* amounts, current_amount the sum of the amounts deposited to the goal, and
\* is_completed is true whenever current_amount >= target_amount.
C32_ConcurrentDepositsAddUp ==
  [][ /\ DepositsAccountedFor(db')
      /\ \/ db' = db
         \/ \E p \in Pair :
              LET u == req[p].userId
                  g == req[p].goalId
              IN /\ pc[p] = "d_commit" /\ resp'[p].status = 201
                 /\ Len(db'.deposits) = Len(db.deposits) + 1
                 /\ Len(DepositTransactions(db'.transactions)) =
                      Len(DepositTransactions(db.transactions)) + 1
                 /\ db'.users[u].total_balance =
                      db.users[u].total_balance + req[p].amount
                 /\ \A h \in GoalIds :
                      db'.savings_goals[h].current_amount =
                        db.savings_goals[h].current_amount
                          + (IF h = g THEN req[p].amount ELSE 0) ]_vars

\* after one committed deposit, a deposit to the goal waits for the row lock held
\* by another deposit to the same goal that has not committed yet
C32_Witness ==
  /\ Len(db.deposits) = 1
  /\ \E p, q \in Pair :
       /\ pc[p] = "d_commit" /\ pc[q] = "d_goal"
       /\ req[p].goalId \in GoalIds /\ req[q].goalId = req[p].goalId
       /\ Locked(q, "savings_goals", req[q].goalId)
       /\ req[p].amount < TargetAmount /\ req[q].amount < TargetAmount

\* ------------------------------------------------------- streak read and deposit

\* deposits and streak reads of one user, side by side, over a few days
NextReadRace ==
  \/ Tick(MaxRaceDay)
  \/ \E p \in Pair : nreq < MaxReq /\ DepositStart(p, U, NoGoal, MaxAmount)
  \/ \E p \in Pair : nreq < MaxReq /\ StreakGetStart(p, U)
  \/ \E p \in Pair :
       \/ DepositBalance(p) \/ DepositStreakSelect(p) \/ DepositStreakUpdate(p)
       \/ DepositGrowth(p) \/ DepositTransaction(p) \/ DepositCommit(p)
       \/ DepositCatch(p)
  \/ \E p \in Pair : StreakGetDecay(p) \/ StreakCatch(p)

SpecReadRace == Init /\ [][NextReadRace]_vars

\* C33: a streak read never undoes a deposit: once a deposit of today has
\* committed and every streak read that ran beside it has finished, the stored
\* streak is the one the deposit wrote, last_deposit_date = today and
\* current_streak >= 1, not current_streak = 0.
C33_ReadNeverUndoesDeposit ==
  ( /\ AllIdle
    /\ \E i \in DOMAIN db.deposits :
         ToISODate(db.deposits[i].deposit_date) = ToISODate(now) )
  => /\ db.streaks[U].last_deposit_date = ToISODate(now)
     /\ db.streaks[U].current_streak >= 1

\* ------------------------------------------------------- a goal of another user

\* one request at a time: wallets connect, and every user deposits with or
\* without naming the goal of user u1
NextForeignGoal ==
  \/ \E a \in {"0xaa", "0xbb"} :
       AllIdle /\ nreq < MaxReq /\ ConnectWalletStart(Serial, a)
  \/ ConnectWallet(Serial)
  \/ \E u \in DOMAIN db.users, g \in {NoGoal} \cup GoalIds :
       AllIdle /\ nreq < MaxReq /\ DepositStart(Serial, u, g, MaxAmount)
  \/ Deposit(Serial)

SpecForeignGoal == Init /\ [][NextForeignGoal]_vars

\* C34: a deposit of user U changes only rows owned by U: when its goalId names a
\* goal of another user V, the goal's current_amount and is_completed are the same
\* before and after the deposit.
C34_DepositKeepsForeignGoal ==
  [][ \A p \in Procs : \A g \in DOMAIN db.savings_goals :
        ( /\ pc[p] = "d_commit" /\ resp'[p].status = 201
          /\ db.savings_goals[g].user_id # req[p].userId )
        => /\ db'.savings_goals[g].current_amount = db.savings_goals[g].current_amount
           /\ db'.savings_goals[g].is_completed = db.savings_goals[g].is_completed ]_vars

\* ------------------------------------------------------- daily earnings

\* allocations of one or two units to one position, at either APY
EarningsRaceLists ==
  {<<[poolType |-> "lending", protocolId |-> id, amount |-> a * AllocationUnit,
      apy |-> y]>> : id \in ProtocolIds, a \in 1..MaxAmount, y \in APYs}

\* allocations and earnings updates of one user, side by side
NextEarningsRace ==
  \/ \E p \in Pair, l \in EarningsRaceLists :
       nreq < MaxReq /\ AllocateStart(p, U, l, "lite")
  \/ \E p \in Pair : Allocate(p)
  \/ \E p \in Pair : nreq < MaxReq /\ UpdateEarningsStart(p, U)
  \/ \E p \in Pair : UpdateEarnings(p)

SpecEarningsRace == Init /\ [][NextEarningsRace]_vars

C36_StreakWithinLongest ==
  \A u \in DOMAIN db.streaks :
    /\ 0 <= db.streaks[u].current_streak
    /\ db.streaks[u].current_streak <= db.streaks[u].longest_streak

\* after a streak of two days and a gap, a new streak of one day has started
C36_Witness ==
  /\ db.streaks[U].current_streak = 1
  /\ db.streaks[U].longest_streak = 2
  /\ db.streaks[U].total_deposits = 3
  /\ db.streaks[U].last_deposit_date = ToISODate(now)

\* ------------------------------------------------------- streak after a deposit

\* C37: immediately after every successful deposit of a user who has a streaks
\* row, last_deposit_date is today and current_streak >= 1, whatever deposits,
\* streak reads, /check calls and manual resets came before it.
C37_DepositLeavesLiveStreak ==
  [][ \A p \in Procs :
        ( /\ pc[p] = "d_commit" /\ resp'[p].status = 201
          /\ req[p].userId \in DOMAIN db.streaks )
        => /\ db'.streaks[req[p].userId].last_deposit_date = ToISODate(now)
           /\ db'.streaks[req[p].userId].current_streak >= 1 ]_vars

\* C37 amended: immediately after every successful deposit of a user who has a
\* streaks row, last_deposit_date is today; current_streak >= 1 when the stored
\* last_deposit_date was another day or none, and when it was already today the
\* row is as it was before the deposit, so a streak that was reset earlier that
\* day stays at 0.
C37_DepositLeavesStreakOfToday ==
  [][ \A p \in Procs :
        ( /\ pc[p] = "d_commit" /\ resp'[p].status = 201
          /\ req[p].userId \in DOMAIN db.streaks )
        => LET old == db.streaks[req[p].userId]
               new == db'.streaks[req[p].userId]
           IN /\ new.last_deposit_date = ToISODate(now)
              /\ old.last_deposit_date # ToISODate(now) => new.current_streak >= 1
              /\ old.last_deposit_date = ToISODate(now) => new = old ]_vars

\* a deposit has succeeded on a day on which the streak had been reset after an
\* earlier deposit: the streak is still 0
C37_Witness ==
  /\ resp[Serial] = Response(201, "Deposit successful")
  /\ Len(db.deposits) = 2
  /\ db.streaks[U].current_streak = 0
  /\ db.streaks[U].last_deposit_date = ToISODate(now)
  /\ db.streaks[U].total_deposits = 1

\* ------------------------------------------------------- one streak machine

\* the streak row that follows row old on day today
StreakStep(old, today) ==
  LET gap == today - old.last_deposit_date
      next == IF old.last_deposit_date = 0 THEN 1
              ELSE IF gap = 1 THEN old.current_streak + 1
              ELSE IF gap > 1 THEN 1
              ELSE old.current_streak
  IN IF old.last_deposit_date = today THEN old
     ELSE [current_streak |-> next,
           longest_streak |-> IF next >= old.longest_streak THEN next
                              ELSE old.longest_streak,
           last_deposit_date |-> today,
           total_deposits |-> old.total_deposits + 1]

\* C38: POST /check and the streak step of a deposit are the same state machine:
\* from every stored streak row and on every day, a successful /check and a
\* successful deposit both leave the row that StreakStep gives, which is the row
\* itself when last_deposit_date is today.
C38_CheckAndDepositAgree ==
  [][ \A p \in Procs :
        LET u == req[p].userId
            today == ToISODate(now)
        IN /\ ( /\ pc[p] = "d_commit" /\ resp'[p].status = 201
                /\ u \in DOMAIN db.streaks )
              => db'.streaks[u] = StreakStep(db.streaks[u], today)
           /\ (pc[p] = "c_update" /\ resp'[p].status = 200)
              => db'.streaks[u] = StreakStep(db.streaks[u], today)
           /\ ( /\ pc[p] = "idle" /\ nreq' # nreq
                /\ resp'[p].message = "Streak already updated for today"
                /\ pc'[p] = "idle" )
              => /\ db' = db
                 /\ \E v \in DOMAIN db.streaks :
                      db.streaks[v].last_deposit_date = today ]_vars

\* /check has continued on the next day a streak that a deposit had started
C38_Witness ==
  /\ resp[Serial].message = "Streak updated successfully"
  /\ Len(db.deposits) = 1
  /\ db.streaks[U].current_streak = 2
  /\ db.streaks[U].total_deposits = 2
  /\ db.streaks[U].last_deposit_date = ToISODate(db.deposits[1].deposit_date) + 1

\* ------------------------------------------------------------- the transaction bracket

\* The six handlers that run on a client of their own:
\*   const client = await getClient();
\*   try { validation; BEGIN; statements; COMMIT; res.json(...) }
\*   catch (error) { ROLLBACK; res.status(500) } finally { client.release() }
\* Below, the control flow of that bracket statement by statement. The locals
\* count what the handler has done with its client: clients checked out, BEGINs
\* and ends (a COMMIT or a ROLLBACK that ended an open transaction), releases.
TransactionalHandlers ==
  {"deposit", "withdrawal", "earnings", "allocate", "update_earnings",
   "deallocate"}

\* the handlers that return 400 on a bad body before BEGIN
Validates(h) == h \in {"deposit", "withdrawal", "earnings", "allocate"}

\* the handlers that issue ROLLBACK and return 404 / 400 after their first SELECT
Refuses(h) == h \in {"withdrawal", "deallocate"}

\* res.status(201) in the deposit handler, res.json (200) in the others
SuccessStatus(h) == IF h = "deposit" THEN 201 ELSE 200

\* the handler goes on to statement next with locals l
BracketGoto(p, next, l) ==
  /\ pc' = [pc EXCEPT ![p] = next]
  /\ loc' = [loc EXCEPT ![p] = l]

\* the handler answers r and goes on to the finally block
BracketSend(p, r, l) ==
  /\ BracketGoto(p, "b_finally", l)
  /\ resp' = [resp EXCEPT ![p] = r]

\* const client = await getClient();
BracketGetClient(p, h) ==
  /\ Accept(p)
  /\ req' = [req EXCEPT ![p] = [NoReq EXCEPT !.kind = h]]
  /\ resp' = [resp EXCEPT ![p] = NoResp]
  /\ BracketGoto(p, IF Validates(h) THEN "b_validate" ELSE "b_begin",
                 [NoLoc EXCEPT !.clients = 1])
  /\ UNCHANGED <<apyService, now, db, next_id, tx>>

\* if (!amount || amount <= 0) return res.status(400).json(...)
BracketValidate(p) ==
  /\ pc[p] = "b_validate"
  /\ \/ BracketGoto(p, "b_begin", loc[p]) /\ UNCHANGED resp
     \/ BracketSend(p, Response(400, "Invalid amount"), loc[p])
  /\ UNCHANGED <<apyService, now, db, next_id, tx, req, nreq>>

\* await client.query('BEGIN'), which opens the transaction or throws
BracketBegin(p) ==
  /\ pc[p] = "b_begin"
  /\ \/ BracketGoto(p, "b_body",
                    [loc[p] EXCEPT !.begun = @ + 1, !.open = TRUE])
     \/ BracketGoto(p, "b_catch", loc[p])
  /\ UNCHANGED <<apyService, now, db, next_id, tx, req, resp, nreq>>

\* one awaited statement between BEGIN and COMMIT: it returns, it throws, or
\* (first SELECT of withdrawal and deallocate) it returns what the handler refuses
BracketStatement(p) ==
  /\ pc[p] = "b_body"
  /\ \/ BracketGoto(p, IF loc[p].i + 1 = MaxStatements THEN "b_commit"
                       ELSE "b_body",
                    [loc[p] EXCEPT !.i = @ + 1])
     \/ BracketGoto(p, "b_catch", loc[p])
     \/ /\ Refuses(req[p].kind)
        /\ loc[p].i = 0
        /\ BracketGoto(p, "b_refuse", loc[p])
  /\ UNCHANGED <<apyService, now, db, next_id, tx, req, resp, nreq>>

\* return res.status(404).json(...) with the ROLLBACK left out
BracketRefuseNoRollback(p) ==
  /\ pc[p] = "b_refuse"
  /\ BracketSend(p, Response(404, "not found"), loc[p])
  /\ UNCHANGED <<apyService, now, db, next_id, tx, req, nreq>>

\* await client.query('ROLLBACK'); return res.status(404).json(...)
BracketRefuse(p) ==
  /\ pc[p] = "b_refuse"
  /\ BracketSend(p, Response(404, "not found"),
                 [loc[p] EXCEPT !.ended = @ + 1, !.open = FALSE])
  /\ UNCHANGED <<apyService, now, db, next_id, tx, req, nreq>>

\* await client.query('COMMIT'), which ends the transaction or throws
BracketCommit(p) ==
  /\ pc[p] = "b_commit"
  /\ \/ BracketGoto(p, "b_respond",
                    [loc[p] EXCEPT !.ended = @ + 1, !.open = FALSE,
                                   !.committed = TRUE])
     \/ BracketGoto(p, "b_catch", loc[p])
  /\ UNCHANGED <<apyService, now, db, next_id, tx, req, resp, nreq>>

\* res.status(201).json({...}) / res.json({...}) after COMMIT
BracketRespond(p) ==
  /\ pc[p] = "b_respond"
  /\ BracketSend(p, Response(SuccessStatus(req[p].kind), "success"), loc[p])
  /\ UNCHANGED <<apyService, now, db, next_id, tx, req, nreq>>

\* catch (error) { await client.query('ROLLBACK'); res.status(500).json(...) }:
\* the ROLLBACK ends the transaction when one is open
BracketCatch(p) ==
  /\ pc[p] = "b_catch"
  /\ BracketSend(p, Response(500, "Failed"),
                 [loc[p] EXCEPT !.ended = IF loc[p].open THEN @ + 1 ELSE @,
                                !.open = FALSE])
  /\ UNCHANGED <<apyService, now, db, next_id, tx, req, nreq>>

\* finally { client.release(); }
BracketFinally(p) ==
  /\ pc[p] = "b_finally"
  /\ BracketGoto(p, "idle", [loc[p] EXCEPT !.released = @ + 1])
  /\ UNCHANGED <<apyService, now, db, next_id, tx, req, resp, nreq>>

\* the statements of a handler that has its client
BracketRun(p) ==
  \/ BracketValidate(p)
  \/ BracketBegin(p)
  \/ BracketStatement(p)
  \/ BracketRefuse(p)
  \/ BracketCommit(p)
  \/ BracketRespond(p)
  \/ BracketCatch(p)
  \/ BracketFinally(p)

NextBracket ==
  \/ \E p \in Pair, h \in TransactionalHandlers :
       nreq < MaxReq /\ BracketGetClient(p, h)
  \/ \E p \in Pair : BracketValidate(p)
  \/ \E p \in Pair : BracketBegin(p)
  \/ \E p \in Pair : BracketStatement(p)
  \/ \E p \in Pair : BracketRefuse(p)
  \/ \E p \in Pair : BracketCommit(p)
  \/ \E p \in Pair : BracketRespond(p)
  \/ \E p \in Pair : BracketCatch(p)
  \/ \E p \in Pair : BracketFinally(p)

\* Every awaited statement settles: a handler that has a statement to run runs it.
SpecBracket ==
  Init /\ [][NextBracket]_vars /\ \A p \in Pair : WF_vars(BracketRun(p))

\* the handler of p has answered with a success
BracketSucceeded(p) == resp[p].status \in {200, 201}

\* what holds of the bracket at every moment: at most one BEGIN, one end and one
\* release; an end only of a transaction that was begun; the client is held
\* exactly while the handler runs; a success has been sent only after COMMIT
BracketShape(p) ==
  /\ loc[p].begun <= 1
  /\ loc[p].ended <= loc[p].begun
  /\ loc[p].open <=> (loc[p].begun = 1 /\ loc[p].ended = 0)
  /\ loc[p].released <= loc[p].clients
  /\ (pc[p] # "idle") => (loc[p].clients = 1 /\ loc[p].released = 0)
  /\ (pc[p] = "idle") => /\ loc[p].released = loc[p].clients
                         /\ loc[p].ended = loc[p].begun
  /\ BracketSucceeded(p) => (loc[p].committed /\ loc[p].ended = 1)
  /\ loc[p].committed => loc[p].begun = 1

\* C39: in every execution of a transactional handler every BEGIN is eventually
\* followed by exactly one COMMIT or ROLLBACK (never a second one, none without a
\* BEGIN), the client is released exactly once on every path (validation
\* failure, not-found, error, success), and a success response is sent only
\* after COMMIT.
C39_TransactionBracket ==
  /\ [](\A p \in Pair : BracketShape(p))
  /\ \A p \in Pair :
       /\ loc[p].open ~> (loc[p].ended = 1 /\ ~loc[p].open)
       /\ (loc[p].clients = 1 /\ loc[p].released = 0) ~> (loc[p].released = 1)

\* a withdrawal refused after BEGIN has rolled back, answered 404 and released
\* the client, while the other handler sits between COMMIT and its response
C39_Witness ==
  /\ req[Serial].kind = "withdrawal" /\ pc[Serial] = "idle"
  /\ resp[Serial].status = 404
  /\ loc[Serial].begun = 1 /\ loc[Serial].ended = 1
  /\ loc[Serial].released = 1 /\ ~loc[Serial].committed
  /\ pc[Observer] = "b_respond" /\ loc[Observer].committed

====
